---- MODULE Spec2Model ----
(***************************************************************************)
(* Playlist navigation core of the music player backend:                   *)
(*   models/doubly_linked_list.py  Node, DoublyLinkedList                  *)
(*   models/playlist.py            Playlist                                *)
(*   patterns/singleton.py         MusicPlayerManager                      *)
(* The list is modelled as a heap of nodes with next/prev references, the  *)
(* playlist and the manager as the fields of their objects.                *)
(***************************************************************************)
EXTENDS Integers, Sequences, FiniteSets, TLC

\* ---------------------------------------------------------------- bounds
\* Largest number of tracks a list or playlist is grown to.
MaxLen == 3
\* Largest number of tracks of the playlist driven through the manager.
MaxSessionLen == 2
\* How far current_position is followed below zero.
MaxDrift == 1
\* How many joins of the tracking thread return after their timeout, the thread
\* still alive.
MaxTimeouts == 1

\* Track identities (Song.id); Song.__eq__ compares ids only.
Songs == {"A", "B", "C"}
\* Tracks offered to the playlist driven through the manager.
SessionSongs == {"A", "B"}
\* The position tracking threads that exist at a time.
Trackers == {"t1", "t2"}
\* Python's None, as a value and as a return value.
None == "None"
\* The absent node reference (a Python None in head/tail/current/next/prev).
NULL == 0

\* Song.duration of each track, in seconds.
duration(s) ==
    CASE s = "A" -> 1 [] s = "B" -> 2 [] s = "C" -> 3 [] s = "D" -> 5 [] OTHER -> 0

VARIABLES
    songs,                    \* Playlist.songs: the DoublyLinkedList object
    current_position,         \* Playlist.current_position
    song_count,               \* Playlist.song_count
    total_duration,           \* Playlist.total_duration
    current_playlist,         \* MusicPlayerManager.current_playlist: None, "pl" or a left object
    is_playing,               \* MusicPlayerManager.is_playing
    is_paused,                \* MusicPlayerManager.is_paused
    current_volume,           \* MusicPlayerManager.current_volume
    repeat_mode,              \* MusicPlayerManager.repeat_mode
    shuffle_mode,             \* MusicPlayerManager.shuffle_mode
    current_position_seconds, \* MusicPlayerManager.current_position_seconds
    volume_before_mute,       \* MusicPlayerManager._volume_before_mute, -1 = no attribute
    copy,                     \* the Playlist returned by duplicate(), id None before
    audio,                    \* the fields of the AudioService object
    request,                  \* the playlist call a request handler is in the middle of
    playlists,                \* PlaylistService.playlists: the catalog, the id and name of each playlist
    playlists_file,           \* playlists.json: whether it exists, and what was last saved
    tracker,                  \* the position tracking threads: where each one is, and its song
    timeouts,                 \* the joins that returned with the tracking thread alive
    last                      \* the last call made: operation, arguments, outcome

listVars    == <<songs>>
plVars      == <<current_position, song_count, total_duration>>
sessionVars == <<current_playlist, is_playing, is_paused, current_volume, repeat_mode,
                 shuffle_mode, current_position_seconds, volume_before_mute>>
otherVars   == <<copy, audio, request, playlists, playlists_file, tracker, timeouts>>
vars        == <<songs, current_position, song_count, total_duration, current_playlist,
                 is_playing, is_paused, current_volume, repeat_mode, shuffle_mode,
                 current_position_seconds, volume_before_mute, copy, audio, request,
                 playlists, playlists_file, tracker, timeouts, last>>

\* ------------------------------------------------------------------ Node
\* Node.__init__: data with next and prev (absent until linked).
Node(d, nx, pv) == [data |-> d, next |-> nx, prev |-> pv]

\* ------------------------------------------------------ DoublyLinkedList
\* DoublyLinkedList.__init__: no head, no tail, no current, _size 0.
dll_init == [nodes |-> <<>>, head |-> NULL, tail |-> NULL, current |-> NULL, size |-> 0]

\* The outcome of a list call: the list afterwards, the exception raised
\* ("none" when it returns) and the value returned.
Res(L, e, r) == [l |-> L, err |-> e, ret |-> r]

\* A fresh object identity for Node(data).
NewId(L) ==
    IF DOMAIN L.nodes = {} THEN 1
    ELSE (CHOOSE m \in DOMAIN L.nodes : \A k \in DOMAIN L.nodes : k <= m) + 1

\* node.next / node.prev / node.data of a node reference.
NextOf(L, n) == IF n = NULL THEN NULL ELSE L.nodes[n].next
PrevOf(L, n) == IF n = NULL THEN NULL ELSE L.nodes[n].prev
DataOf(L, n) == IF n = NULL THEN None ELSE L.nodes[n].data

\* is_empty: head is None.
dll_is_empty(L) == L.head = NULL

\* size: the _size counter.
dll_size(L) == L.size

\* insert_at_beginning, for data that is not None.
\* insert_at_beginning that makes the new node current on every list.
link_at_beginning_takes_cursor(L, d) ==
    LET n == NewId(L) IN
    IF dll_is_empty(L)
    THEN [L EXCEPT !.nodes = @ @@ (n :> Node(d, NULL, NULL)),
                   !.head = n, !.tail = n, !.current = n, !.size = @ + 1]
    ELSE [L EXCEPT !.nodes = [@ EXCEPT ![L.head].prev = n] @@ (n :> Node(d, L.head, NULL)),
                   !.head = n, !.current = n, !.size = @ + 1]

LinkAtBeginning(L, d) ==
    LET n == NewId(L) IN
    IF dll_is_empty(L)
    THEN [L EXCEPT !.nodes = @ @@ (n :> Node(d, NULL, NULL)),
                   !.head = n, !.tail = n, !.current = n, !.size = @ + 1]
    ELSE [L EXCEPT !.nodes = [@ EXCEPT ![L.head].prev = n] @@ (n :> Node(d, L.head, NULL)),
                   !.head = n, !.size = @ + 1]

\* insert_at_end, for data that is not None.
LinkAtEnd(L, d) ==
    LET n == NewId(L) IN
    IF dll_is_empty(L)
    THEN [L EXCEPT !.nodes = @ @@ (n :> Node(d, NULL, NULL)),
                   !.head = n, !.tail = n, !.current = n, !.size = @ + 1]
    ELSE [L EXCEPT !.nodes = [@ EXCEPT ![L.tail].next = n] @@ (n :> Node(d, NULL, L.tail)),
                   !.tail = n, !.size = @ + 1]

dll_insert_at_beginning(L, d) ==
    IF d = None THEN Res(L, "ValueError", None) ELSE Res(LinkAtBeginning(L, d), "none", None)

dll_insert_at_end(L, d) ==
    IF d = None THEN Res(L, "ValueError", None) ELSE Res(LinkAtEnd(L, d), "none", None)

\* for _ in range(k): current = current.next
RECURSIVE StepNext(_, _, _)
StepNext(L, n, k) == IF k <= 0 THEN n ELSE StepNext(L, NextOf(L, n), k - 1)

\* for _ in range(k): current = current.prev
RECURSIVE StepPrev(_, _, _)
StepPrev(L, n, k) == IF k <= 0 THEN n ELSE StepPrev(L, PrevOf(L, n), k - 1)

\* _get_node_at_position with one step too many on the walk from the tail.
get_node_at_position_long_walk(L, position) ==
    IF position <= L.size \div 2
    THEN StepNext(L, L.head, position)
    ELSE StepPrev(L, L.tail, L.size - position)

\* _get_node_at_position: walk from the nearer end.
get_node_at_position(L, position) ==
    IF position <= L.size \div 2
    THEN StepNext(L, L.head, position)
    ELSE StepPrev(L, L.tail, L.size - 1 - position)

\* insert_at_position, the interior case: link a new node before the node found.
LinkBefore(L, d, c) ==
    LET n == NewId(L)
        p == L.nodes[c].prev
        withNew == L.nodes @@ (n :> Node(d, c, p))
        linked == IF p = NULL THEN [withNew EXCEPT ![c].prev = n]
                  ELSE [withNew EXCEPT ![p].next = n, ![c].prev = n]
    IN [L EXCEPT !.nodes = linked, !.size = @ + 1]

dll_insert_at_position(L, d, position) ==
    IF d = None THEN Res(L, "ValueError", None)
    ELSE IF position < 0 \/ position > L.size THEN Res(L, "ValueError", None)
    ELSE IF position = 0 THEN dll_insert_at_beginning(L, d)
    ELSE IF position = L.size THEN dll_insert_at_end(L, d)
    ELSE LET c == get_node_at_position(L, position) IN
         IF c = NULL \/ PrevOf(L, c) = NULL THEN Res(L, "AttributeError", None)
         ELSE Res(LinkBefore(L, d, c), "none", None)

\* _delete_node without `node.next.prev = node.prev`.
delete_node_keeps_back_link(L, node) ==
    LET nx == L.nodes[node].next
        pv == L.nodes[node].prev
        cur == IF L.current = node
               THEN (IF nx # NULL THEN nx ELSE IF pv # NULL THEN pv ELSE NULL)
               ELSE L.current
        hd == IF node = L.head THEN nx ELSE L.head
        n1 == IF node = L.head /\ hd # NULL THEN [L.nodes EXCEPT ![hd].prev = NULL]
              ELSE L.nodes
        tl == IF node = L.tail THEN n1[node].prev ELSE L.tail
        n2 == IF node = L.tail /\ tl # NULL THEN [n1 EXCEPT ![tl].next = NULL] ELSE n1
        n3 == IF n2[node].prev # NULL THEN [n2 EXCEPT ![n2[node].prev].next = n2[node].next]
              ELSE n2
    IN [nodes |-> n3, head |-> hd, tail |-> tl, current |-> cur, size |-> L.size - 1]

\* _delete_node without `self._size -= 1`.
delete_node_keeps_size(L, node) ==
    LET nx == L.nodes[node].next
        pv == L.nodes[node].prev
        cur == IF L.current = node
               THEN (IF nx # NULL THEN nx ELSE IF pv # NULL THEN pv ELSE NULL)
               ELSE L.current
        hd == IF node = L.head THEN nx ELSE L.head
        n1 == IF node = L.head /\ hd # NULL THEN [L.nodes EXCEPT ![hd].prev = NULL]
              ELSE L.nodes
        tl == IF node = L.tail THEN n1[node].prev ELSE L.tail
        n2 == IF node = L.tail /\ tl # NULL THEN [n1 EXCEPT ![tl].next = NULL] ELSE n1
        n3 == IF n2[node].prev # NULL THEN [n2 EXCEPT ![n2[node].prev].next = n2[node].next]
              ELSE n2
        n4 == IF n3[node].next # NULL THEN [n3 EXCEPT ![n3[node].next].prev = n3[node].prev]
              ELSE n3
    IN [nodes |-> n4, head |-> hd, tail |-> tl, current |-> cur, size |-> L.size]

\* _delete_node without the handling of the current pointer.
delete_node_keeps_current(L, node) ==
    LET nx == L.nodes[node].next
        hd == IF node = L.head THEN nx ELSE L.head
        n1 == IF node = L.head /\ hd # NULL THEN [L.nodes EXCEPT ![hd].prev = NULL]
              ELSE L.nodes
        tl == IF node = L.tail THEN n1[node].prev ELSE L.tail
        n2 == IF node = L.tail /\ tl # NULL THEN [n1 EXCEPT ![tl].next = NULL] ELSE n1
        n3 == IF n2[node].prev # NULL THEN [n2 EXCEPT ![n2[node].prev].next = n2[node].next]
              ELSE n2
        n4 == IF n3[node].next # NULL THEN [n3 EXCEPT ![n3[node].next].prev = n3[node].prev]
              ELSE n3
    IN [nodes |-> n4, head |-> hd, tail |-> tl, current |-> L.current, size |-> L.size - 1]

\* _delete_node moving current to the predecessor before the successor.
delete_node_prefers_prev(L, node) ==
    LET nx == L.nodes[node].next
        pv == L.nodes[node].prev
        cur == IF L.current = node
               THEN (IF pv # NULL THEN pv ELSE IF nx # NULL THEN nx ELSE NULL)
               ELSE L.current
        hd == IF node = L.head THEN nx ELSE L.head
        n1 == IF node = L.head /\ hd # NULL THEN [L.nodes EXCEPT ![hd].prev = NULL]
              ELSE L.nodes
        tl == IF node = L.tail THEN n1[node].prev ELSE L.tail
        n2 == IF node = L.tail /\ tl # NULL THEN [n1 EXCEPT ![tl].next = NULL] ELSE n1
        n3 == IF n2[node].prev # NULL THEN [n2 EXCEPT ![n2[node].prev].next = n2[node].next]
              ELSE n2
        n4 == IF n3[node].next # NULL THEN [n3 EXCEPT ![n3[node].next].prev = n3[node].prev]
              ELSE n3
    IN [nodes |-> n4, head |-> hd, tail |-> tl, current |-> cur, size |-> L.size - 1]

\* _delete_node: move current off the node, then unlink it.
delete_node(L, node) ==
    LET nx == L.nodes[node].next
        pv == L.nodes[node].prev
        cur == IF L.current = node
               THEN (IF nx # NULL THEN nx ELSE IF pv # NULL THEN pv ELSE NULL)
               ELSE L.current
        hd == IF node = L.head THEN nx ELSE L.head
        n1 == IF node = L.head /\ hd # NULL THEN [L.nodes EXCEPT ![hd].prev = NULL]
              ELSE L.nodes
        tl == IF node = L.tail THEN n1[node].prev ELSE L.tail
        n2 == IF node = L.tail /\ tl # NULL THEN [n1 EXCEPT ![tl].next = NULL] ELSE n1
        n3 == IF n2[node].prev # NULL THEN [n2 EXCEPT ![n2[node].prev].next = n2[node].next]
              ELSE n2
        n4 == IF n3[node].next # NULL THEN [n3 EXCEPT ![n3[node].next].prev = n3[node].prev]
              ELSE n3
    IN [nodes |-> n4, head |-> hd, tail |-> tl, current |-> cur, size |-> L.size - 1]

\* find: the first node, from head, whose data equals the value.
RECURSIVE FindFrom(_, _, _, _)
FindFrom(L, n, d, fuel) ==
    IF n = NULL \/ fuel <= 0 THEN NULL
    ELSE IF L.nodes[n].data = d THEN n
    ELSE FindFrom(L, L.nodes[n].next, d, fuel - 1)

dll_find(L, d) == FindFrom(L, L.head, d, Cardinality(DOMAIN L.nodes))

dll_delete_by_value(L, d) ==
    IF dll_is_empty(L) THEN Res(L, "none", "False")
    ELSE LET n == dll_find(L, d) IN
         IF n = NULL THEN Res(L, "none", "False")
         ELSE Res(delete_node(L, n), "none", "True")

dll_delete_at_position(L, position) ==
    IF dll_is_empty(L) THEN Res(L, "IndexError", None)
    ELSE IF position < 0 \/ position >= L.size THEN Res(L, "ValueError", None)
    ELSE LET n == get_node_at_position(L, position) IN
         IF n = NULL THEN Res(L, "AttributeError", None)
         ELSE Res(delete_node(L, n), "none", L.nodes[n].data)

dll_get_at_position(L, position) ==
    IF dll_is_empty(L) THEN Res(L, "IndexError", None)
    ELSE IF position < 0 \/ position >= L.size THEN Res(L, "ValueError", None)
    ELSE LET n == get_node_at_position(L, position) IN
         IF n = NULL THEN Res(L, "AttributeError", None)
         ELSE Res(L, "none", L.nodes[n].data)

\* clear: delete_at_position(0) until empty, then reset every field.
RECURSIVE ClearLoop(_, _)
ClearLoop(L, fuel) ==
    IF dll_is_empty(L) \/ fuel <= 0 THEN L
    ELSE ClearLoop(dll_delete_at_position(L, 0).l, fuel - 1)

dll_clear(L) ==
    [ClearLoop(L, Cardinality(DOMAIN L.nodes)) EXCEPT
        !.head = NULL, !.tail = NULL, !.current = NULL, !.size = 0]

\* to_list: the data of the nodes from head along next.
RECURSIVE WalkNext(_, _, _)
WalkNext(L, n, fuel) ==
    IF n = NULL \/ fuel <= 0 THEN <<>>
    ELSE <<n>> \o WalkNext(L, L.nodes[n].next, fuel - 1)

\* The nodes from tail along prev.
RECURSIVE WalkPrev(_, _, _)
WalkPrev(L, n, fuel) ==
    IF n = NULL \/ fuel <= 0 THEN <<>>
    ELSE <<n>> \o WalkPrev(L, L.nodes[n].prev, fuel - 1)

\* The nodes visited from head; one step more than there are nodes shows a cycle.
Chain(L) == WalkNext(L, L.head, Cardinality(DOMAIN L.nodes) + 1)
ChainBack(L) == WalkPrev(L, L.tail, Cardinality(DOMAIN L.nodes) + 1)

dll_to_list(L) == LET c == Chain(L) IN [i \in 1..Len(c) |-> L.nodes[c[i]].data]

\* get_current: current.data, or None.
dll_get_current(L) == DataOf(L, L.current)

\* get_current_position: index of the current node from head, -1 without one.
dll_get_current_position(L) ==
    IF L.current = NULL THEN -1
    ELSE LET c == Chain(L) IN
         IF \E i \in 1..Len(c) : c[i] = L.current
         THEN (CHOOSE i \in 1..Len(c) : c[i] = L.current) - 1
         ELSE Len(c)

\* next that goes round to the head from the tail.
next_wraps(L) ==
    IF L.current = NULL THEN Res(L, "none", None)
    ELSE LET n == IF NextOf(L, L.current) = NULL THEN L.head ELSE NextOf(L, L.current)
         IN Res([L EXCEPT !.current = n], "none", L.nodes[n].data)

\* next: move current to current.next when there is one.
dll_next(L) ==
    IF L.current = NULL \/ NextOf(L, L.current) = NULL THEN Res(L, "none", None)
    ELSE LET n == NextOf(L, L.current) IN Res([L EXCEPT !.current = n], "none", L.nodes[n].data)

\* previous: move current to current.prev when there is one.
dll_previous(L) ==
    IF L.current = NULL \/ PrevOf(L, L.current) = NULL THEN Res(L, "none", None)
    ELSE LET n == PrevOf(L, L.current) IN Res([L EXCEPT !.current = n], "none", L.nodes[n].data)

\* set_current that clamps an out-of-range position to the nearest valid one.
set_current_clamps(L, position) ==
    IF dll_is_empty(L) THEN Res(L, "IndexError", None)
    ELSE LET q == IF position < 0 THEN 0
                  ELSE IF position >= L.size THEN L.size - 1 ELSE position
             n == get_node_at_position(L, q)
         IN Res([L EXCEPT !.current = n], "none", L.nodes[n].data)

dll_set_current(L, position) ==
    IF dll_is_empty(L) THEN Res(L, "IndexError", None)
    ELSE IF position < 0 \/ position >= L.size THEN Res(L, "ValueError", None)
    ELSE LET n == get_node_at_position(L, position) IN
         IF n = NULL THEN Res([L EXCEPT !.current = NULL], "AttributeError", None)
         ELSE Res([L EXCEPT !.current = n], "none", L.nodes[n].data)

dll_has_next(L) == L.current # NULL /\ NextOf(L, L.current) # NULL
dll_has_previous(L) == L.current # NULL /\ PrevOf(L, L.current) # NULL

\* for data in data_list: insert_at_end(data)
RECURSIVE InsertAll(_, _)
InsertAll(L, ds) ==
    IF ds = <<>> THEN L ELSE InsertAll(LinkAtEnd(L, Head(ds)), Tail(ds))

\* shuffle, with data_list as random.shuffle left it: clear, rebuild, then
\* put current on the first node holding the data that was current.
dll_shuffle(L, shuffled) ==
    IF L.size <= 1 THEN L
    ELSE LET current_data == dll_get_current(L)
             rebuilt == InsertAll(dll_clear(L), shuffled)
             current_node == IF current_data = None THEN NULL
                             ELSE dll_find(rebuilt, current_data)
         IN IF current_node # NULL THEN [rebuilt EXCEPT !.current = current_node]
            ELSE rebuilt

\* move_to_position: delete at from_pos, insert at to_pos (one less when the
\* target lay after the source).
\* move_to_position without the adjustment of the target after the removal.
move_to_position_keeps_target(L, from_pos, to_pos) ==
    IF dll_is_empty(L) THEN Res(L, "IndexError", None)
    ELSE IF from_pos < 0 \/ from_pos >= L.size \/ to_pos < 0 \/ to_pos >= L.size
    THEN Res(L, "ValueError", None)
    ELSE IF from_pos = to_pos THEN Res(L, "none", None)
    ELSE LET del == dll_delete_at_position(L, from_pos)
         IN IF del.err # "none" THEN Res(del.l, del.err, None)
            ELSE dll_insert_at_position(del.l, del.ret, to_pos)

dll_move_to_position(L, from_pos, to_pos) ==
    IF dll_is_empty(L) THEN Res(L, "IndexError", None)
    ELSE IF from_pos < 0 \/ from_pos >= L.size \/ to_pos < 0 \/ to_pos >= L.size
    THEN Res(L, "ValueError", None)
    ELSE IF from_pos = to_pos THEN Res(L, "none", None)
    ELSE LET del == dll_delete_at_position(L, from_pos)
             target == IF to_pos > from_pos THEN to_pos - 1 ELSE to_pos
         IN IF del.err # "none" THEN Res(del.l, del.err, None)
            ELSE dll_insert_at_position(del.l, del.ret, target)

\* ------------------------------------------------- object identities
\* Node objects are told apart by identity alone, so a list is kept up to a
\* renaming of its nodes: the nodes still referenced are numbered along the
\* chain from head, unreferenced nodes are collected.
RECURSIVE ReachFrom(_, _, _)
ReachFrom(L, S, fuel) ==
    LET T == S \cup {L.nodes[n].next : n \in S} \cup {L.nodes[n].prev : n \in S}
        U == T \ {NULL}
    IN IF fuel <= 0 \/ U = S THEN S ELSE ReachFrom(L, U, fuel - 1)

Referenced(L) ==
    ReachFrom(L, {L.head, L.tail, L.current} \ {NULL}, Cardinality(DOMAIN L.nodes))

RECURSIVE Ascending(_)
Ascending(S) ==
    IF S = {} THEN <<>>
    ELSE LET m == CHOOSE x \in S : \A y \in S : x <= y IN <<m>> \o Ascending(S \ {m})

\* The chain from head without a repeated node.
RECURSIVE Prefix(_, _)
Prefix(c, k) ==
    IF k = 0 THEN <<>>
    ELSE LET p == Prefix(c, k - 1) IN
         IF Len(p) < k - 1 \/ \E i \in 1..Len(p) : p[i] = c[k] THEN p
         ELSE Append(p, c[k])

Renamed(L) ==
    LET c == Chain(L)
        chain == Prefix(c, Len(c))
        rest == Ascending(Referenced(L) \ {chain[i] : i \in 1..Len(chain)})
        order == chain \o rest
        ren(n) == IF n = NULL THEN NULL ELSE CHOOSE i \in 1..Len(order) : order[i] = n
    IN [nodes |-> [i \in 1..Len(order) |->
                     Node(L.nodes[order[i]].data,
                          ren(L.nodes[order[i]].next),
                          ren(L.nodes[order[i]].prev))],
        head |-> ren(L.head), tail |-> ren(L.tail), current |-> ren(L.current),
        size |-> L.size]

\* ---------------------------------------------------------------- Playlist
\* The fields of a Playlist that its operations read and write.
Pl(L, cp, cnt, dur) ==
    [songs |-> L, current_position |-> cp, song_count |-> cnt, total_duration |-> dur]

\* Playlist.__init__: an empty list, current_position 0, totals 0.
pl_init == Pl(dll_init, 0, 0, 0)

\* The outcome of a playlist call: the playlist afterwards, the exception
\* that left the method ("none" when it returns) and the value returned.
PRes(P, e, r) == [p |-> P, err |-> e, ret |-> r]

RECURSIVE SumDurations(_)
SumDurations(ds) == IF ds = <<>> THEN 0 ELSE duration(Head(ds)) + SumDurations(Tail(ds))

\* update_totals without the recomputation of total_duration.
update_totals_count_only(P) ==
    [P EXCEPT !.song_count = dll_size(P.songs)]

\* update_totals: song_count and total_duration from the list.
update_totals(P) ==
    [P EXCEPT !.song_count = dll_size(P.songs),
              !.total_duration = SumDurations(dll_to_list(P.songs))]

pl_get_songs_list(P) == dll_to_list(P.songs)
pl_is_empty(P) == dll_is_empty(P.songs)

\* Playlist.__bool__: a playlist is truthy when it has songs.
pl_bool(P) == ~pl_is_empty(P)

\* add_song that appends when the position is out of range.
add_song_clamps_position(P, song, position) ==
    LET r == IF position = <<>> THEN dll_insert_at_end(P.songs, song)
             ELSE IF position[1] < 0 \/ position[1] > dll_size(P.songs)
             THEN dll_insert_at_end(P.songs, song)
             ELSE dll_insert_at_position(P.songs, song, position[1])
    IN IF r.err # "none" THEN PRes([P EXCEPT !.songs = r.l], "none", "False")
       ELSE LET P1 == update_totals([P EXCEPT !.songs = r.l]) IN
            IF dll_size(P1.songs) = 1
            THEN LET sc == dll_set_current(P1.songs, 0)
                     P2 == [P1 EXCEPT !.current_position = 0, !.songs = sc.l]
                 IN PRes(P2, "none", IF sc.err = "none" THEN "True" ELSE "False")
            ELSE PRes(P1, "none", "True")

\* add_song; position is <<>> for None and <<p>> for the position p.
pl_add_song(P, song, position) ==
    LET r == IF position = <<>> THEN dll_insert_at_end(P.songs, song)
             ELSE IF position[1] < 0 \/ position[1] > dll_size(P.songs)
             THEN Res(P.songs, "ValueError", None)
             ELSE dll_insert_at_position(P.songs, song, position[1])
    IN IF r.err # "none" THEN PRes([P EXCEPT !.songs = r.l], "none", "False")
       ELSE LET P1 == update_totals([P EXCEPT !.songs = r.l]) IN
            IF dll_size(P1.songs) = 1
            THEN LET sc == dll_set_current(P1.songs, 0)
                     P2 == [P1 EXCEPT !.current_position = 0, !.songs = sc.l]
                 IN PRes(P2, "none", IF sc.err = "none" THEN "True" ELSE "False")
            ELSE PRes(P1, "none", "True")

\* The position of the first track with the id, counted from head; -1 without one.
FirstPosition(P, song_id) ==
    LET l == dll_to_list(P.songs) IN
    IF \E i \in 1..Len(l) : l[i] = song_id
    THEN (CHOOSE i \in 1..Len(l) : l[i] = song_id /\ \A j \in 1..(i - 1) : l[j] # song_id) - 1
    ELSE -1

\* remove from a position without the adjustment of current_position made before
\* the deletion.
remove_at_keeps_position(P, position) ==
    LET del == dll_delete_at_position(P.songs, position)
    IN IF del.err # "none" THEN PRes([P EXCEPT !.songs = del.l], "none", "False")
       ELSE LET P2 == update_totals([P EXCEPT !.songs = del.l]) IN
            IF ~dll_is_empty(P2.songs) /\ P2.current_position < dll_size(P2.songs)
            THEN LET sc == dll_set_current(P2.songs, P2.current_position) IN
                 PRes([P2 EXCEPT !.songs = sc.l], "none",
                      IF sc.err = "none" THEN "True" ELSE "False")
            ELSE PRes([P2 EXCEPT !.current_position = 0], "none", "True")

\* remove_song / remove_song_at_position from the position found on: adjust
\* current_position, delete, update the totals, put the list's current on
\* current_position. An exception on the way is caught and gives False.
RemoveAt(P, position) ==
    LET sz == dll_size(P.songs)
        cp == P.current_position
        cp1 == IF position < cp THEN cp - 1
               ELSE IF position = cp /\ cp >= sz - 1
               THEN (IF sz - 2 > 0 THEN sz - 2 ELSE 0)
               ELSE cp
        P1 == [P EXCEPT !.current_position = cp1]
        del == dll_delete_at_position(P1.songs, position)
    IN IF del.err # "none" THEN PRes([P1 EXCEPT !.songs = del.l], "none", "False")
       ELSE LET P2 == update_totals([P1 EXCEPT !.songs = del.l]) IN
            IF ~dll_is_empty(P2.songs) /\ P2.current_position < dll_size(P2.songs)
            THEN LET sc == dll_set_current(P2.songs, P2.current_position) IN
                 PRes([P2 EXCEPT !.songs = sc.l], "none",
                      IF sc.err = "none" THEN "True" ELSE "False")
            ELSE PRes([P2 EXCEPT !.current_position = 0], "none", "True")

pl_remove_song(P, song_id) ==
    IF song_id = None THEN PRes(P, "none", "False")
    ELSE IF FirstPosition(P, song_id) < 0 THEN PRes(P, "none", "False")
    ELSE RemoveAt(P, FirstPosition(P, song_id))

pl_remove_song_at_position(P, position) ==
    IF dll_is_empty(P.songs) THEN PRes(P, "none", "False")
    ELSE IF position < 0 \/ position >= dll_size(P.songs) THEN PRes(P, "ValueError", None)
    ELSE RemoveAt(P, position)

pl_get_song_at_position(P, position) ==
    IF position < 0 \/ position >= dll_size(P.songs) THEN None
    ELSE LET r == dll_get_at_position(P.songs, position) IN
         IF r.err = "none" THEN r.ret ELSE None

pl_clear_all_songs(P) ==
    update_totals([P EXCEPT !.songs = dll_clear(P.songs), !.current_position = 0])

pl_get_current_song(P) ==
    IF dll_is_empty(P.songs) THEN None ELSE dll_get_current(P.songs)

pl_next_song(P) ==
    IF dll_is_empty(P.songs) THEN PRes(P, "none", None)
    ELSE LET r == dll_next(P.songs) IN
         PRes([P EXCEPT !.songs = r.l,
                        !.current_position = IF r.ret # None THEN @ + 1 ELSE @],
              "none", r.ret)

pl_previous_song(P) ==
    IF dll_is_empty(P.songs) THEN PRes(P, "none", None)
    ELSE LET r == dll_previous(P.songs) IN
         PRes([P EXCEPT !.songs = r.l,
                        !.current_position = IF r.ret # None THEN @ - 1 ELSE @],
              "none", r.ret)

\* set_current_position without the call of songs.set_current(position).
set_current_position_skips_cursor(P, position) ==
    IF dll_is_empty(P.songs) THEN PRes(P, "none", "False")
    ELSE IF position < 0 \/ position >= dll_size(P.songs) THEN PRes(P, "none", "False")
    ELSE PRes([P EXCEPT !.current_position = position], "none", "True")

\* set_current_position that clamps a position past the end to the last track.
set_current_position_clamps(P, position) ==
    IF dll_is_empty(P.songs) THEN PRes(P, "none", "False")
    ELSE IF position < 0 THEN PRes(P, "none", "False")
    ELSE LET q == IF position >= dll_size(P.songs) THEN dll_size(P.songs) - 1
                  ELSE position
             r == dll_set_current(P.songs, q)
         IN IF r.err # "none" THEN PRes([P EXCEPT !.songs = r.l], "none", "False")
            ELSE PRes([P EXCEPT !.songs = r.l, !.current_position = q], "none", "True")

pl_set_current_position(P, position) ==
    IF dll_is_empty(P.songs) THEN PRes(P, "none", "False")
    ELSE IF position < 0 \/ position >= dll_size(P.songs) THEN PRes(P, "none", "False")
    ELSE LET r == dll_set_current(P.songs, position) IN
         IF r.err # "none" THEN PRes([P EXCEPT !.songs = r.l], "none", "False")
         ELSE PRes([P EXCEPT !.songs = r.l, !.current_position = position], "none", "True")

\* _find_song_position: the first position of the id, 0 when absent.
find_song_position(P, song_id) ==
    IF FirstPosition(P, song_id) < 0 THEN 0 ELSE FirstPosition(P, song_id)

\* shuffle_songs, with the order random.shuffle chose.
pl_shuffle_songs(P, shuffled) ==
    IF dll_size(P.songs) <= 1 THEN P
    ELSE LET current_song == pl_get_current_song(P)
             P1 == [P EXCEPT !.songs = dll_shuffle(P.songs, shuffled)]
         IN IF current_song # None
            THEN [P1 EXCEPT !.current_position = find_song_position(P1, current_song)]
            ELSE P1

\* move_song: adjust current_position, move in the list, put the list's
\* current on current_position.
pl_move_song(P, from_position, to_position) ==
    IF dll_is_empty(P.songs) THEN PRes(P, "none", "False")
    ELSE IF from_position < 0 \/ from_position >= dll_size(P.songs)
            \/ to_position < 0 \/ to_position >= dll_size(P.songs)
    THEN PRes(P, "none", "False")
    ELSE LET cp == P.current_position
             cp1 == IF from_position = cp THEN to_position
                    ELSE IF from_position < cp /\ cp <= to_position THEN cp - 1
                    ELSE IF to_position <= cp /\ cp < from_position THEN cp + 1
                    ELSE cp
             P1 == [P EXCEPT !.current_position = cp1]
             mv == dll_move_to_position(P1.songs, from_position, to_position)
         IN IF mv.err # "none" THEN PRes([P1 EXCEPT !.songs = mv.l], "none", "False")
            ELSE IF dll_is_empty(mv.l) THEN PRes([P1 EXCEPT !.songs = mv.l], "none", "True")
            ELSE LET sc == dll_set_current(mv.l, cp1) IN
                 PRes([P1 EXCEPT !.songs = sc.l], "none",
                      IF sc.err = "none" THEN "True" ELSE "False")

pl_has_next(P) == dll_has_next(P.songs)
pl_has_previous(P) == dll_has_previous(P.songs)

\* The id and the name the playlist was created with (the name already stripped).
PlaylistId == "pl-1"
PlaylistName == "Mix"

\* str.strip() on the names in use.
strip(name) == IF name = " Mix " THEN "Mix" ELSE name

\* Song.to_dict: the fields of the song that the playlist reads.
song_to_dict(song) == [id |-> song, duration |-> duration(song)]

\* Song.from_dict: cls(**data) validates the fields; the file of a song outside
\* loadable is gone and the validation raises.
song_from_dict(song_data, loadable) ==
    IF song_data.id \in loadable THEN [err |-> "none", ret |-> song_data.id]
    ELSE [err |-> "ValueError", ret |-> None]

to_dict(P) ==
    LET l == pl_get_songs_list(P) IN
    [id |-> PlaylistId,
     name |-> PlaylistName,
     songs |-> [i \in 1..Len(l) |-> song_to_dict(l[i])],
     current_position |-> P.current_position,
     total_duration |-> P.total_duration,
     song_count |-> P.song_count]

\* The loop of from_dict over data['songs']: add_song for every song that loads, a
\* song that raises is skipped.
RECURSIVE LoadSongs(_, _, _)
LoadSongs(P, songs_data, loadable) ==
    IF songs_data = <<>> THEN P
    ELSE LET song == song_from_dict(Head(songs_data), loadable)
         IN LoadSongs(IF song.err = "none" THEN pl_add_song(P, song.ret, <<>>).p ELSE P,
                      Tail(songs_data), loadable)

\* Playlist.from_dict: the id and name, and the playlist built by add_song in order
\* with current_position restored when it is in range.
from_dict(data, loadable) ==
    LET playlist == LoadSongs(pl_init, data.songs, loadable)
        current_pos == data.current_position
    IN [id |-> IF data.id # None THEN data.id ELSE "uuid4",
        name |-> strip(data.name),
        p |-> IF ~pl_is_empty(playlist) /\ 0 <= current_pos
                 /\ current_pos < playlist.song_count
              THEN pl_set_current_position(playlist, current_pos).p
              ELSE playlist]

\* uuid.uuid4() for a new playlist: an id that no playlist has yet.
Uuid4Ids == {"pl-2", "pl-3"}

\* f"{self.name} (Copy)" for the names in use.
CopyName(name) ==
    CASE name = "Mix" -> "Mix (Copy)" [] name = "MIX" -> "MIX (Copy)" [] OTHER -> name

\* str.lower() on the names in use.
lower(name) ==
    CASE name \in {"Mix", "MIX"} -> "mix"
      [] name \in {"Mix (Copy)", "MIX (Copy)"} -> "mix (copy)"
      [] name = "Mix (1)" -> "mix (1)"
      [] name = "Mix (2)" -> "mix (2)"
      [] name = "Road" -> "road"
      [] OTHER -> name

\* f"{original_name} ({counter})" for the names in use.
Numbered(original_name, counter) ==
    CASE original_name = "Mix" /\ counter = 1 -> "Mix (1)"
      [] original_name = "Mix" /\ counter = 2 -> "Mix (2)"
      [] OTHER -> original_name

\* The loop of duplicate over get_songs_list(): add_song(song) on the new playlist.
RECURSIVE AddAll(_, _)
AddAll(P, l) ==
    IF l = <<>> THEN P ELSE AddAll(pl_add_song(P, Head(l), <<>>).p, Tail(l))

\* duplicate without a fresh cursor: the copy is put on the original's position.
duplicate_keeps_position(P, new_name, new_id) ==
    LET new_playlist == AddAll(pl_init, pl_get_songs_list(P)) IN
    [id |-> new_id,
     name |-> strip(IF new_name # None THEN new_name ELSE CopyName(PlaylistName)),
     p |-> pl_set_current_position(new_playlist, P.current_position).p]

\* Playlist.duplicate: a new Playlist (new id, new list, new nodes) to which the
\* songs of get_songs_list() are added in order.
duplicate(P, new_name, new_id) ==
    [id |-> new_id,
     name |-> strip(IF new_name # None THEN new_name ELSE CopyName(PlaylistName)),
     p |-> AddAll(pl_init, pl_get_songs_list(P))]

\* ------------------------------------------------------------ the state
\* The playlist object made of the state's fields.
ThePlaylist == Pl(songs, current_position, song_count, total_duration)

\* All orders random.shuffle can leave a list in.
Shuffles(l) ==
    {[i \in 1..Len(l) |-> l[p[i]]] :
        p \in {q \in [1..Len(l) -> 1..Len(l)] : \A i, j \in 1..Len(l) : q[i] = q[j] => i = j}}

\* The record of the last call: the operation, its track and position
\* arguments, the exception raised, the value returned, and where the list's
\* current node and current_position stood when the call was made. With it goes
\* the history the volume properties speak of: muted, the volumes that the calls
\* of mute() since the last call of set_volume have replaced.
Call(op, s, args, err, ret) ==
    [op |-> op, s |-> s, args |-> args, err |-> err, ret |-> ret,
     pre |-> <<dll_get_current_position(songs), current_position>>,
     muted |-> IF op = "set_volume" THEN {}
               ELSE IF op = "mute" THEN last.muted \cup {current_volume}
               ELSE last.muted]

\* A call on the list, the playlist or the manager returns: it is recorded, and the
\* objects it has no reference to (a duplicate, the audio service, a request in
\* progress) are as they were.
Returns(op, s, args, err, ret) ==
    /\ last' = Call(op, s, args, err, ret)
    /\ UNCHANGED otherVars

\* Position pairs offered to a move on n tracks: every valid pair, and pairs
\* with one position just outside the range.
MovePairs(n) ==
    {<<f, t>> : f \in 0..(n - 1), t \in 0..(n - 1)}
        \cup {<<-1, 0>>, <<0, -1>>, <<n, 0>>, <<0, n>>}

\* MusicPlayerManager.__init__ defaults.
DefaultVolume == 70

InitPlaylist ==
    /\ songs = dll_init
    /\ current_position = 0
    /\ song_count = 0
    /\ total_duration = 0

InitSession ==
    /\ current_playlist = None
    /\ is_playing = FALSE
    /\ is_paused = FALSE
    /\ current_volume = DefaultVolume
    /\ repeat_mode = "off"
    /\ shuffle_mode = FALSE
    /\ current_position_seconds = 0
    /\ volume_before_mute = -1

\* AudioService.__init__: nothing loaded, the mixer silent, no tracking thread.
InitAudio ==
    audio = [current_song |-> None, is_loaded |-> FALSE, mixer |-> "idle", music |-> None,
             stop_position_tracking |-> FALSE, position_thread |-> None,
             is_loading |-> FALSE]

\* No tracking thread has been started.
InitTracker ==
    tracker = [t \in Trackers |-> [pc |-> "none", song |-> None, joined |-> None]]

Init ==
    /\ InitPlaylist
    /\ InitSession
    /\ InitAudio
    /\ copy = [id |-> None]
    /\ request = [step |-> "idle", position |-> -1, song |-> None, joined |-> None,
                  was_playing |-> FALSE]
    /\ playlists = <<>>
    /\ playlists_file = [exists |-> FALSE, playlists |-> <<>>]
    /\ InitTracker
    /\ timeouts = 0
    /\ last = [op |-> "init", s |-> None, args |-> <<>>, err |-> "none", ret |-> None,
               pre |-> <<-1, 0>>, muted |-> {}]

\* ------------------------------------------- DoublyLinkedList operations
\* A call on the list object alone; the playlist and the manager are not involved.
ListCall(r, op, s, args) ==
    /\ songs' = Renamed(r.l)
    /\ Returns(op, s, args, r.err, r.ret)
    /\ UNCHANGED <<plVars, sessionVars>>

InsertAtBeginning ==
    \E d \in Songs \cup {None} :
        /\ d # None => dll_size(songs) < MaxLen
        /\ ListCall(dll_insert_at_beginning(songs, d), "insert_at_beginning", d, <<>>)

InsertAtEnd ==
    \E d \in Songs \cup {None} :
        /\ d # None => dll_size(songs) < MaxLen
        /\ ListCall(dll_insert_at_end(songs, d), "insert_at_end", d, <<>>)

InsertAtPosition ==
    \E d \in Songs, p \in -1..(dll_size(songs) + 1) :
        /\ (0 <= p /\ p <= dll_size(songs)) => dll_size(songs) < MaxLen
        /\ ListCall(dll_insert_at_position(songs, d, p), "insert_at_position", d, <<p>>)

DeleteByValue ==
    \E d \in Songs :
        ListCall(dll_delete_by_value(songs, d), "delete_by_value", d, <<>>)

DeleteAtPosition ==
    \E p \in -1..dll_size(songs) :
        ListCall(dll_delete_at_position(songs, p), "delete_at_position", None, <<p>>)

GetAtPosition ==
    \E p \in -1..dll_size(songs) :
        ListCall(dll_get_at_position(songs, p), "get_at_position", None, <<p>>)

Clear ==
    ListCall(Res(dll_clear(songs), "none", None), "clear", None, <<>>)

ListNext == ListCall(dll_next(songs), "next", None, <<>>)

ListPrevious == ListCall(dll_previous(songs), "previous", None, <<>>)

SetCurrent ==
    \E p \in -1..dll_size(songs) :
        ListCall(dll_set_current(songs, p), "set_current", None, <<p>>)

Shuffle ==
    \E shuffled \in Shuffles(dll_to_list(songs)) :
        ListCall(Res(dll_shuffle(songs, shuffled), "none", None), "shuffle", None, <<>>)

MoveToPosition ==
    \E m \in MovePairs(dll_size(songs)) :
        ListCall(dll_move_to_position(songs, m[1], m[2]), "move_to_position", None, m)

NextList ==
    \/ InsertAtBeginning
    \/ InsertAtEnd
    \/ InsertAtPosition
    \/ DeleteByValue
    \/ DeleteAtPosition
    \/ GetAtPosition
    \/ Clear
    \/ ListNext
    \/ ListPrevious
    \/ SetCurrent
    \/ Shuffle
    \/ MoveToPosition

\* The DoublyLinkedList on its own, under every call of its interface.
SpecList == Init /\ [][NextList]_vars

\* ----------------------------------------------------- Playlist operations
\* A call on the playlist object; the manager is not involved.
PlaylistCall(r, op, s, args) ==
    /\ r.p.current_position >= -MaxDrift
    /\ songs' = Renamed(r.p.songs)
    /\ current_position' = r.p.current_position
    /\ song_count' = r.p.song_count
    /\ total_duration' = r.p.total_duration
    /\ Returns(op, s, args, r.err, r.ret)
    /\ UNCHANGED sessionVars

\* add_song(song) and add_song(song, position), with tracks of S up to maxlen.
AddSong(S, maxlen) ==
    \E s \in S, position \in {<<>>} \cup {<<p>> : p \in -1..(dll_size(songs) + 1)} :
        /\ dll_size(songs) < maxlen
        /\ PlaylistCall(pl_add_song(ThePlaylist, s, position), "add_song", s, position)

RemoveSong(S) ==
    \E s \in S :
        PlaylistCall(pl_remove_song(ThePlaylist, s), "remove_song", s, <<>>)

RemoveSongAtPosition ==
    \E p \in -1..dll_size(songs) :
        PlaylistCall(pl_remove_song_at_position(ThePlaylist, p),
                     "remove_song_at_position", None, <<p>>)

ClearAllSongs ==
    PlaylistCall(PRes(pl_clear_all_songs(ThePlaylist), "none", None),
                 "clear_all_songs", None, <<>>)

NextSong ==
    PlaylistCall(pl_next_song(ThePlaylist), "next_song", None, <<>>)

PreviousSong ==
    PlaylistCall(pl_previous_song(ThePlaylist), "previous_song", None, <<>>)

SetCurrentPosition ==
    \E p \in -1..dll_size(songs) :
        PlaylistCall(pl_set_current_position(ThePlaylist, p),
                     "set_current_position", None, <<p>>)

ShuffleSongs ==
    \E shuffled \in Shuffles(dll_to_list(songs)) :
        PlaylistCall(PRes(pl_shuffle_songs(ThePlaylist, shuffled), "none", None),
                     "shuffle_songs", None, <<>>)

MoveSong ==
    \E m \in MovePairs(dll_size(songs)) :
        PlaylistCall(pl_move_song(ThePlaylist, m[1], m[2]), "move_song", None, m)

Next ==
    \/ AddSong(Songs, MaxLen)
    \/ RemoveSong(Songs)
    \/ RemoveSongAtPosition
    \/ ClearAllSongs
    \/ NextSong
    \/ PreviousSong
    \/ SetCurrentPosition
    \/ ShuffleSongs
    \/ MoveSong

\* One Playlist under every call of its interface.
Spec == Init /\ [][Next]_vars

\* The loaded playlist object taking the place of the saved one.
StoreLoaded(P) ==
    /\ songs' = Renamed(P.songs)
    /\ current_position' = P.current_position
    /\ song_count' = P.song_count
    /\ total_duration' = P.total_duration

\* The playlist saved with to_dict() and loaded again with from_dict(), the files of
\* the songs in loadable still being there. The call is recorded with the id and
\* the name of the loaded playlist and the number of tracks that did not load.
Reload ==
    \E loadable \in SUBSET SessionSongs :
        LET q == from_dict(to_dict(ThePlaylist), loadable)
            l == pl_get_songs_list(ThePlaylist)
        IN /\ StoreLoaded(q.p)
           /\ Returns("from_dict", q.id,
                           <<Cardinality({i \in 1..Len(l) : l[i] \notin loadable})>>,
                           "none", q.name)
           /\ UNCHANGED sessionVars

NextStore ==
    \/ AddSong(SessionSongs, MaxLen)
    \/ RemoveSong(SessionSongs)
    \/ NextSong
    \/ PreviousSong
    \/ SetCurrentPosition
    \/ Reload

\* One Playlist that is edited, navigated, saved and loaded.
SpecStore == Init /\ [][NextStore]_vars

\* ------------------------------------------------------ a duplicated playlist
\* The playlist object that duplicate() returned.
TheCopy == copy.p

Duplicate ==
    \E new_name \in {None, "Road"}, new_id \in Uuid4Ids :
        /\ copy' = duplicate(ThePlaylist, new_name, new_id)
        /\ last' = Call("duplicate", None, <<>>, "none", new_id)
        /\ UNCHANGED <<listVars, plVars, sessionVars, audio, request, playlists, playlists_file, tracker, timeouts>>

\* A call on the duplicate; the original and the manager are not involved.
CopyCall(r, op, s, args) ==
    /\ copy' = [copy EXCEPT !.p = [r.p EXCEPT !.songs = Renamed(r.p.songs)]]
    /\ last' = Call(op, s, args, r.err, r.ret)
    /\ UNCHANGED <<listVars, plVars, sessionVars, audio, request, playlists, playlists_file, tracker, timeouts>>

CopyAddSong ==
    \E s \in SessionSongs, position \in {<<>>, <<0>>} :
        /\ copy.id # None
        /\ dll_size(TheCopy.songs) < MaxSessionLen
        /\ CopyCall(pl_add_song(TheCopy, s, position), "copy.add_song", s, position)

CopyRemoveSongAtPosition ==
    \E p \in 0..1 :
        /\ copy.id # None
        /\ p < dll_size(TheCopy.songs)
        /\ CopyCall(pl_remove_song_at_position(TheCopy, p),
                    "copy.remove_song_at_position", None, <<p>>)

CopyNextSong ==
    /\ copy.id # None
    /\ CopyCall(pl_next_song(TheCopy), "copy.next_song", None, <<>>)

NextCopies ==
    \/ AddSong(SessionSongs, MaxSessionLen)
    \/ RemoveSongAtPosition
    \/ NextSong
    \/ Duplicate
    \/ CopyAddSong
    \/ CopyRemoveSongAtPosition
    \/ CopyNextSong

\* A playlist and its duplicate, each edited and navigated on its own.
SpecCopies == Init /\ [][NextCopies]_vars

\* ------------------------------------------- MusicPlayerManager operations
\* `if self.current_playlist`: a playlist is set and Playlist.__bool__ is true.
\* current_playlist is "pl" when the manager refers to the playlist of the state;
\* the other values are objects the catalog has left behind, with tracks
\* ("replaced", "deleted") or without ("replaced-empty", "deleted-empty").
PlaylistTruthy ==
    \/ current_playlist = "pl" /\ pl_bool(ThePlaylist)
    \/ current_playlist \in {"replaced", "deleted"}

\* The playlist object written back to the state's fields.
StorePlaylist(P) ==
    /\ songs' = Renamed(P.songs)
    /\ current_position' = P.current_position
    /\ song_count' = P.song_count
    /\ total_duration' = P.total_duration

\* set_current_playlist that leaves the playback flags and position alone.
set_current_playlist_keeps_state ==
    \E isPlaylist \in BOOLEAN :
        IF ~isPlaylist
        THEN /\ Returns("set_current_playlist", None, <<>>, "ValueError", None)
             /\ UNCHANGED <<listVars, plVars, sessionVars>>
        ELSE /\ current_playlist' = "pl"
             /\ Returns("set_current_playlist", "pl", <<>>, "none", None)
             /\ UNCHANGED <<listVars, plVars, is_playing, is_paused,
                            current_position_seconds, current_volume, repeat_mode,
                            shuffle_mode, volume_before_mute>>

\* set_current_playlist(playlist): isPlaylist is the isinstance check.
SetCurrentPlaylist ==
    \E isPlaylist \in BOOLEAN :
        IF ~isPlaylist
        THEN /\ Returns("set_current_playlist", None, <<>>, "ValueError", None)
             /\ UNCHANGED <<listVars, plVars, sessionVars>>
        ELSE /\ current_playlist' = "pl"
             /\ current_position_seconds' = 0
             /\ is_playing' = FALSE
             /\ is_paused' = FALSE
             /\ Returns("set_current_playlist", "pl", <<>>, "none", None)
             /\ UNCHANGED <<listVars, plVars, current_volume, repeat_mode, shuffle_mode,
                            volume_before_mute>>

\* set_playing_state without the `self.is_paused = False` of the playing branch.
set_playing_state_keeps_paused ==
    \E playing \in BOOLEAN :
        /\ is_playing' = playing
        /\ is_paused' = IF playing THEN is_paused
                        ELSE IF PlaylistTruthy /\ ~pl_is_empty(ThePlaylist)
                        THEN TRUE
                        ELSE is_paused
        /\ Returns("set_playing_state", IF playing THEN "True" ELSE "False",
                        <<>>, "none", None)
        /\ UNCHANGED <<listVars, plVars, current_playlist, current_volume, repeat_mode,
                       shuffle_mode, current_position_seconds, volume_before_mute>>

SetPlayingState ==
    \E playing \in BOOLEAN :
        /\ is_playing' = playing
        /\ is_paused' = IF playing THEN FALSE
                        ELSE IF PlaylistTruthy /\ ~pl_is_empty(ThePlaylist)
                        THEN TRUE
                        ELSE is_paused
        /\ Returns("set_playing_state", IF playing THEN "True" ELSE "False",
                        <<>>, "none", None)
        /\ UNCHANGED <<listVars, plVars, current_playlist, current_volume, repeat_mode,
                       shuffle_mode, current_position_seconds, volume_before_mute>>

\* toggle_repeat_mode that never reaches "all".
toggle_repeat_mode_two_modes ==
    /\ repeat_mode' = IF repeat_mode = "off" THEN "one" ELSE "off"
    /\ Returns("toggle_repeat_mode", None, <<>>, "none", repeat_mode')
    /\ UNCHANGED <<listVars, plVars, current_playlist, is_playing, is_paused,
                   current_volume, shuffle_mode, current_position_seconds,
                   volume_before_mute>>

ToggleRepeatMode ==
    /\ repeat_mode' = IF repeat_mode = "off" THEN "one"
                      ELSE IF repeat_mode = "one" THEN "all"
                      ELSE "off"
    /\ Returns("toggle_repeat_mode", None, <<>>, "none", repeat_mode')
    /\ UNCHANGED <<listVars, plVars, current_playlist, is_playing, is_paused,
                   current_volume, shuffle_mode, current_position_seconds,
                   volume_before_mute>>

ResetState ==
    /\ current_playlist' = None
    /\ is_playing' = FALSE
    /\ is_paused' = FALSE
    /\ current_volume' = DefaultVolume
    /\ repeat_mode' = "off"
    /\ shuffle_mode' = FALSE
    /\ current_position_seconds' = 0
    /\ Returns("reset_state", None, <<>>, "none", None)
    /\ UNCHANGED <<listVars, plVars, volume_before_mute>>

\* update_position(seconds), for a position within the track.
UpdatePosition ==
    \E seconds \in {0, 1} :
        /\ current_position_seconds' = seconds
        /\ Returns("update_position", None, <<seconds>>, "none", None)
        /\ UNCHANGED <<listVars, plVars, current_playlist, is_playing, is_paused,
                       current_volume, repeat_mode, shuffle_mode, volume_before_mute>>

\* set_repeat_mode(mode): a mode outside the valid ones raises.
SetRepeatMode ==
    \E mode \in {"off", "one", "all", "random"} :
        IF mode \notin {"off", "one", "all"}
        THEN /\ Returns("set_repeat_mode", mode, <<>>, "ValueError", None)
             /\ UNCHANGED <<listVars, plVars, sessionVars>>
        ELSE /\ repeat_mode' = mode
             /\ Returns("set_repeat_mode", mode, <<>>, "none", None)
             /\ UNCHANGED <<listVars, plVars, current_playlist, is_playing, is_paused,
                            current_volume, shuffle_mode, current_position_seconds,
                            volume_before_mute>>

\* The shuffle-mode body shuffling the active playlist whatever the new flag is.
shuffle_active_ignores_flag(flag, op, s, ret, shuffled) ==
    /\ shuffle_mode' = flag
    /\ Returns(op, s, <<>>, "none", ret)
    /\ UNCHANGED <<current_playlist, is_playing, is_paused, current_volume, repeat_mode,
                   current_position_seconds, volume_before_mute>>
    /\ IF PlaylistTruthy /\ ~pl_is_empty(ThePlaylist)
       THEN StorePlaylist(pl_shuffle_songs(ThePlaylist, shuffled))
       ELSE UNCHANGED <<listVars, plVars>>

\* The body shared by toggle_shuffle_mode and set_shuffle_mode: with the flag on
\* and a non-empty playlist active, shuffle_songs() runs on it; shuffled is the
\* order random.shuffle leaves.
ShuffleActive(flag, op, s, ret, shuffled) ==
    /\ shuffle_mode' = flag
    /\ Returns(op, s, <<>>, "none", ret)
    /\ UNCHANGED <<current_playlist, is_playing, is_paused, current_volume, repeat_mode,
                   current_position_seconds, volume_before_mute>>
    /\ IF flag /\ PlaylistTruthy /\ ~pl_is_empty(ThePlaylist)
       THEN StorePlaylist(pl_shuffle_songs(ThePlaylist, shuffled))
       ELSE UNCHANGED <<listVars, plVars>>

ToggleShuffleMode ==
    \E shuffled \in Shuffles(dll_to_list(songs)) :
        ShuffleActive(~shuffle_mode, "toggle_shuffle_mode", None,
                      IF ~shuffle_mode THEN "True" ELSE "False", shuffled)

SetShuffleMode ==
    \E shuffle \in BOOLEAN, shuffled \in Shuffles(dll_to_list(songs)) :
        ShuffleActive(shuffle, "set_shuffle_mode", IF shuffle THEN "True" ELSE "False",
                      None, shuffled)

\* next_song without the branch for repeat mode "one".
manager_next_song_ignores_repeat_one ==
    IF ~PlaylistTruthy
    THEN /\ Returns("manager_next_song", None, <<>>, "none", "False")
         /\ UNCHANGED <<listVars, plVars, sessionVars>>
    ELSE LET r == pl_next_song(ThePlaylist) IN
         IF r.ret # None
         THEN /\ StorePlaylist(r.p)
              /\ current_position_seconds' = 0
              /\ Returns("manager_next_song", None, <<>>, "none", "True")
              /\ UNCHANGED <<current_playlist, is_playing, is_paused, current_volume,
                             repeat_mode, shuffle_mode, volume_before_mute>>
         ELSE IF repeat_mode = "all" /\ r.p.song_count > 0
         THEN /\ StorePlaylist(pl_set_current_position(r.p, 0).p)
              /\ current_position_seconds' = 0
              /\ Returns("manager_next_song", None, <<>>, "none", "True")
              /\ UNCHANGED <<current_playlist, is_playing, is_paused, current_volume,
                             repeat_mode, shuffle_mode, volume_before_mute>>
         ELSE /\ StorePlaylist(r.p)
              /\ is_playing' = FALSE
              /\ is_paused' = FALSE
              /\ Returns("manager_next_song", None, <<>>, "none", "False")
              /\ UNCHANGED <<current_playlist, current_volume, repeat_mode, shuffle_mode,
                             current_position_seconds, volume_before_mute>>

\* MusicPlayerManager.next_song
ManagerNextSong ==
    IF ~PlaylistTruthy
    THEN /\ Returns("manager_next_song", None, <<>>, "none", "False")
         /\ UNCHANGED <<listVars, plVars, sessionVars>>
    ELSE IF repeat_mode = "one"
    THEN /\ current_position_seconds' = 0
         /\ Returns("manager_next_song", None, <<>>, "none", "True")
         /\ UNCHANGED <<listVars, plVars, current_playlist, is_playing, is_paused,
                        current_volume, repeat_mode, shuffle_mode, volume_before_mute>>
    ELSE LET r == pl_next_song(ThePlaylist) IN
         IF r.ret # None
         THEN /\ StorePlaylist(r.p)
              /\ current_position_seconds' = 0
              /\ Returns("manager_next_song", None, <<>>, "none", "True")
              /\ UNCHANGED <<current_playlist, is_playing, is_paused, current_volume,
                             repeat_mode, shuffle_mode, volume_before_mute>>
         ELSE IF repeat_mode = "all" /\ r.p.song_count > 0
         THEN /\ StorePlaylist(pl_set_current_position(r.p, 0).p)
              /\ current_position_seconds' = 0
              /\ Returns("manager_next_song", None, <<>>, "none", "True")
              /\ UNCHANGED <<current_playlist, is_playing, is_paused, current_volume,
                             repeat_mode, shuffle_mode, volume_before_mute>>
         ELSE /\ StorePlaylist(r.p)
              /\ is_playing' = FALSE
              /\ is_paused' = FALSE
              /\ Returns("manager_next_song", None, <<>>, "none", "False")
              /\ UNCHANGED <<current_playlist, current_volume, repeat_mode, shuffle_mode,
                             current_position_seconds, volume_before_mute>>

\* MusicPlayerManager.previous_song
ManagerPreviousSong ==
    IF ~PlaylistTruthy
    THEN /\ Returns("manager_previous_song", None, <<>>, "none", "False")
         /\ UNCHANGED <<listVars, plVars, sessionVars>>
    ELSE IF repeat_mode = "one"
    THEN /\ current_position_seconds' = 0
         /\ Returns("manager_previous_song", None, <<>>, "none", "True")
         /\ UNCHANGED <<listVars, plVars, current_playlist, is_playing, is_paused,
                        current_volume, repeat_mode, shuffle_mode, volume_before_mute>>
    ELSE LET r == pl_previous_song(ThePlaylist) IN
         /\ r.p.current_position >= -MaxDrift
         /\ IF r.ret # None
            THEN /\ StorePlaylist(r.p)
                 /\ current_position_seconds' = 0
                 /\ Returns("manager_previous_song", None, <<>>, "none", "True")
                 /\ UNCHANGED <<current_playlist, is_playing, is_paused, current_volume,
                                repeat_mode, shuffle_mode, volume_before_mute>>
            ELSE IF repeat_mode = "all" /\ r.p.song_count > 0
            THEN /\ StorePlaylist(pl_set_current_position(r.p, r.p.song_count - 1).p)
                 /\ current_position_seconds' = 0
                 /\ Returns("manager_previous_song", None, <<>>, "none", "True")
                 /\ UNCHANGED <<current_playlist, is_playing, is_paused, current_volume,
                                repeat_mode, shuffle_mode, volume_before_mute>>
            ELSE /\ StorePlaylist(r.p)
                 /\ Returns("manager_previous_song", None, <<>>, "none", "False")
                 /\ UNCHANGED sessionVars

NextSession ==
    \/ SetCurrentPlaylist
    \/ SetPlayingState
    \/ ToggleRepeatMode
    \/ ResetState
    \/ UpdatePosition
    \/ ManagerNextSong
    \/ ManagerPreviousSong
    \/ SetRepeatMode
    \/ ToggleShuffleMode
    \/ SetShuffleMode
    \/ AddSong(SessionSongs, MaxSessionLen)
    \/ RemoveSongAtPosition
    \/ SetCurrentPosition

\* The manager with one playlist of the catalog, which requests keep editing.
SpecSession == Init /\ [][NextSession]_vars

\* set_volume without the range check.
set_volume_unchecked ==
    \E volume \in {-1, 40, 101} :
        /\ current_volume' = volume
        /\ Returns("set_volume", None, <<volume>>, "none", None)
        /\ UNCHANGED <<listVars, plVars, current_playlist, is_playing, is_paused,
                       repeat_mode, shuffle_mode, current_position_seconds,
                       volume_before_mute>>

\* set_volume(volume): a volume outside 0..100 raises.
SetVolume ==
    \E volume \in {-1, 40, 101} :
        IF ~(0 <= volume /\ volume <= 100)
        THEN /\ Returns("set_volume", None, <<volume>>, "ValueError", None)
             /\ UNCHANGED <<listVars, plVars, sessionVars>>
        ELSE /\ current_volume' = volume
             /\ Returns("set_volume", None, <<volume>>, "none", None)
             /\ UNCHANGED <<listVars, plVars, current_playlist, is_playing, is_paused,
                            repeat_mode, shuffle_mode, current_position_seconds,
                            volume_before_mute>>

NextControls ==
    \/ SetCurrentPlaylist
    \/ SetPlayingState
    \/ ToggleRepeatMode
    \/ UpdatePosition
    \/ ToggleShuffleMode
    \/ SetShuffleMode
    \/ SetVolume
    \/ AddSong(SessionSongs, MaxSessionLen)

\* The manager's playback controls (state, repeat, shuffle, volume) over a playlist
\* that grows.
SpecControls == Init /\ [][NextControls]_vars

\* mute(): the volume is remembered and set to 0.
Mute ==
    /\ volume_before_mute' = current_volume
    /\ current_volume' = 0
    /\ Returns("mute", None, <<>>, "none", None)
    /\ UNCHANGED <<listVars, plVars, current_playlist, is_playing, is_paused,
                   repeat_mode, shuffle_mode, current_position_seconds>>

\* unmute that always restores the default volume.
unmute_restores_default ==
    /\ current_volume' = DefaultVolume
    /\ Returns("unmute", None, <<>>, "none", None)
    /\ UNCHANGED <<listVars, plVars, current_playlist, is_playing, is_paused,
                   repeat_mode, shuffle_mode, current_position_seconds,
                   volume_before_mute>>

\* unmute(): the remembered volume if the attribute exists, else the default.
Unmute ==
    /\ current_volume' = IF volume_before_mute # -1 THEN volume_before_mute
                         ELSE DefaultVolume
    /\ Returns("unmute", None, <<>>, "none", None)
    /\ UNCHANGED <<listVars, plVars, current_playlist, is_playing, is_paused,
                   repeat_mode, shuffle_mode, current_position_seconds,
                   volume_before_mute>>

NextVolume ==
    \/ SetVolume
    \/ Mute
    \/ Unmute
    \/ ResetState
    \/ SetCurrentPlaylist
    \/ SetPlayingState
    \/ ToggleRepeatMode
    \/ ToggleShuffleMode
    \/ UpdatePosition

\* The manager's volume, mute and reset, among its other controls.
SpecVolume == Init /\ [][NextVolume]_vars

\* ------------------------------------------------ PlaylistService operations
\* The catalog holds at most two playlists: the one create_playlist made, which is
\* the playlist of the state and goes under PlaylistId, and the one
\* duplicate_playlist made of it, which is the copy. Each entry of the catalog is
\* the id and the name of a playlist.

\* get_playlist_by_id(playlist_id): the playlist of the catalog with that id, or None.
get_playlist_by_id(playlist_id) ==
    IF \E i \in 1..Len(playlists) : playlists[i].id = playlist_id THEN playlist_id
    ELSE None

\* playlist.name of the catalog's playlist with that id.
NameOf(playlist_id) ==
    playlists[CHOOSE i \in 1..Len(playlists) : playlists[i].id = playlist_id].name

\* The Playlist object with that id.
PlaylistOf(playlist_id) == IF playlist_id = PlaylistId THEN ThePlaylist ELSE TheCopy

\* `if not playlist` after get_playlist_by_id: no playlist has the id, or the one
\* that has it is empty (Playlist.__bool__).
NotPlaylist(playlist_id) ==
    get_playlist_by_id(playlist_id) = None \/ ~pl_bool(PlaylistOf(playlist_id))

\* self.playlists.remove(playlist).
playlists_remove(playlist_id) ==
    SelectSeq(playlists, LAMBDA q : q.id # playlist_id)

\* _is_playlist_name_exists(name): a playlist of the catalog c has the name, case
\* aside.
is_playlist_name_exists(c, name) ==
    \E i \in 1..Len(c) : lower(c[i].name) = lower(name)

\* The loop of duplicate_playlist that numbers the name until no playlist has it.
RECURSIVE unique_name(_, _, _)
unique_name(original_name, name, counter) ==
    IF is_playlist_name_exists(playlists, name)
    THEN unique_name(original_name, Numbered(original_name, counter), counter + 1)
    ELSE name

\* What save_playlists_to_file writes for the catalog c, P being the playlist of
\* the state and Q the copy: to_dict() of every playlist, in the catalog's order.
Saved(c, P, Q) ==
    [exists |-> TRUE,
     playlists |-> [i \in 1..Len(c) |->
                      [to_dict(IF c[i].id = PlaylistId THEN P ELSE Q)
                          EXCEPT !.id = c[i].id, !.name = c[i].name]]]

\* The manager's current_playlist once the catalog has a newly loaded object in the
\* place of the playlist of the state: the object it refers to has the same id and
\* is no longer the catalog's.
Replaced ==
    IF current_playlist # "pl" THEN current_playlist
    ELSE IF pl_bool(ThePlaylist) THEN "replaced" ELSE "replaced-empty"

\* The manager's current_playlist once create_playlist has made the playlist of the
\* state: the object it refers to is an earlier one, with another id.
Deleted ==
    IF current_playlist = None THEN None
    ELSE IF PlaylistTruthy THEN "deleted" ELSE "deleted-empty"

\* A call of the service on the playlist of the state that leaves it as P;
\* save_playlists_to_file runs when saved.
ServiceCall(P, saved, op, s, args, err, ret) ==
    \E playlist \in {P} :
        /\ playlist.current_position >= -MaxDrift
        /\ StorePlaylist(playlist)
        /\ playlists_file' = IF saved THEN Saved(playlists, playlist, TheCopy)
                             ELSE playlists_file
        /\ last' = Call(op, s, args, err, ret)
        /\ UNCHANGED <<sessionVars, copy, audio, request, playlists, tracker, timeouts>>

\* A call of the service that returns without having changed anything.
ServiceReturns(op, s, args, err, ret) ==
    /\ Returns(op, s, args, err, ret)
    /\ UNCHANGED <<listVars, plVars, sessionVars>>

\* create_playlist(name): an empty name and a name that is taken raise; otherwise a
\* new Playlist is appended to the catalog and the catalog is saved. The new object
\* is the playlist of the state from then on; the manager keeps the reference it
\* had.
CreatePlaylist ==
    \E name \in {"", "Mix", " Mix "} :
        IF strip(name) = "" \/ is_playlist_name_exists(playlists, strip(name))
        THEN ServiceReturns("create_playlist", None, <<>>, "ValueError", None)
        ELSE LET created == Append(playlists, [id |-> PlaylistId, name |-> strip(name)]) IN
             /\ StorePlaylist(pl_init)
             /\ playlists' = created
             /\ playlists_file' = Saved(created, pl_init, TheCopy)
             /\ current_playlist' = Deleted
             /\ last' = Call("create_playlist", None, <<>>, "none", PlaylistId)
             /\ UNCHANGED <<is_playing, is_paused, current_volume, repeat_mode, shuffle_mode,
                            current_position_seconds, volume_before_mute, copy, audio,
                            request, tracker, timeouts>>

\* update_playlist(playlist_id, name): False when `not playlist`, when the name is
\* empty and when another playlist has the name; otherwise the playlist is renamed
\* and the catalog saved.
UpdatePlaylist ==
    \E playlist_id \in {PlaylistId} \cup Uuid4Ids, name \in {"", "MIX"} :
        IF \/ NotPlaylist(playlist_id)
           \/ strip(name) = ""
           \/ \E i \in 1..Len(playlists) :
                  playlists[i].id # playlist_id /\ lower(playlists[i].name) = lower(strip(name))
        THEN ServiceReturns("update_playlist", None, <<>>, "none", "False")
        ELSE LET updated == [i \in 1..Len(playlists) |->
                                IF playlists[i].id = playlist_id
                                THEN [playlists[i] EXCEPT !.name = strip(name)]
                                ELSE playlists[i]]
             IN /\ playlists' = updated
                /\ playlists_file' = Saved(updated, ThePlaylist, TheCopy)
                /\ copy' = IF playlist_id = PlaylistId THEN copy
                           ELSE [copy EXCEPT !.name = strip(name)]
                /\ last' = Call("update_playlist", None, <<>>, "none", "True")
                /\ UNCHANGED <<listVars, plVars, sessionVars, audio, request, tracker,
                               timeouts>>

\* add_song_to_playlist(playlist_id, song, position): False when the playlist is
\* not in the catalog, when add_song returns False and when it raises; the catalog
\* is saved when the song was added.
AddSongToPlaylist ==
    \E s \in SessionSongs, position \in {<<>>, <<0>>, <<MaxSessionLen + 1>>} :
        IF get_playlist_by_id(PlaylistId) = None
        THEN ServiceReturns("add_song_to_playlist", s, position, "none", "False")
        ELSE \E r \in {pl_add_song(ThePlaylist, s, position)} :
                 \E success \in {r.err = "none" /\ r.ret = "True"} :
                     /\ dll_size(songs) < MaxSessionLen
                     /\ ServiceCall(r.p, success, "add_song_to_playlist", s, position,
                                    "none", IF success THEN "True" ELSE "False")

\* remove_song_from_playlist(playlist_id, song_id): `if not playlist` rejects a
\* playlist that is not in the catalog and one that is empty; the catalog is saved
\* when the song was removed.
RemoveSongFromPlaylist ==
    \E s \in SessionSongs :
        IF NotPlaylist(PlaylistId)
        THEN ServiceReturns("remove_song_from_playlist", s, <<>>, "none", "False")
        ELSE \E r \in {pl_remove_song(ThePlaylist, s)} :
                 ServiceCall(r.p, r.ret = "True", "remove_song_from_playlist", s, <<>>,
                             r.err, r.ret)

\* move_song_in_playlist(playlist_id, from_pos, to_pos): False when `not playlist`,
\* otherwise what move_song returns; the catalog is saved when the song was moved.
MoveSongInPlaylist ==
    \E m \in MovePairs(dll_size(songs)) :
        IF NotPlaylist(PlaylistId)
        THEN ServiceReturns("move_song_in_playlist", None, m, "none", "False")
        ELSE \E r \in {pl_move_song(ThePlaylist, m[1], m[2])} :
                 ServiceCall(r.p, r.ret = "True", "move_song_in_playlist", None, m, r.err,
                             r.ret)

\* shuffle_playlist(playlist_id): False when `not playlist`, otherwise
\* shuffle_songs and a save.
ShufflePlaylist ==
    IF NotPlaylist(PlaylistId)
    THEN ServiceReturns("shuffle_playlist", None, <<>>, "none", "False")
    ELSE \E shuffled \in Shuffles(dll_to_list(songs)) :
             ServiceCall(pl_shuffle_songs(ThePlaylist, shuffled), TRUE,
                         "shuffle_playlist", None, <<>>, "none", "True")

\* PlaylistService.set_current_playlist(playlist_id): `if not playlist` rejects a
\* playlist that is not in the catalog and one that is empty; otherwise the
\* manager's set_current_playlist runs.
ServiceSetCurrentPlaylist ==
    IF NotPlaylist(PlaylistId)
    THEN ServiceReturns("service.set_current_playlist", None, <<>>, "none", "False")
    ELSE /\ current_playlist' = "pl"
         /\ current_position_seconds' = 0
         /\ is_playing' = FALSE
         /\ is_paused' = FALSE
         /\ Returns("service.set_current_playlist", "pl", <<>>, "none", "True")
         /\ UNCHANGED <<listVars, plVars, current_volume, repeat_mode, shuffle_mode,
                        volume_before_mute>>

\* next_song_in_playlist(playlist_id): None when `not playlist`, otherwise what
\* next_song returns. Nothing is saved.
NextSongInPlaylist ==
    IF NotPlaylist(PlaylistId)
    THEN ServiceReturns("next_song_in_playlist", None, <<>>, "none", None)
    ELSE \E r \in {pl_next_song(ThePlaylist)} :
             ServiceCall(r.p, FALSE, "next_song_in_playlist", None, <<>>, r.err, r.ret)

\* previous_song_in_playlist(playlist_id), likewise with previous_song.
PreviousSongInPlaylist ==
    IF NotPlaylist(PlaylistId)
    THEN ServiceReturns("previous_song_in_playlist", None, <<>>, "none", None)
    ELSE \E r \in {pl_previous_song(ThePlaylist)} :
             ServiceCall(r.p, FALSE, "previous_song_in_playlist", None, <<>>, r.err, r.ret)

\* jump_to_song(playlist_id, position): None when `not playlist`; otherwise
\* set_current_position, and get_current_song() when it returned True.
JumpToSong ==
    \E position \in -1..dll_size(songs) :
        IF NotPlaylist(PlaylistId)
        THEN ServiceReturns("jump_to_song", None, <<position>>, "none", None)
        ELSE \E r \in {pl_set_current_position(ThePlaylist, position)} :
                 ServiceCall(r.p, FALSE, "jump_to_song", None, <<position>>, r.err,
                             IF r.err = "none" /\ r.ret = "True"
                             THEN pl_get_current_song(r.p) ELSE None)

\* The second loop of cleanup_invalid_songs: remove_song for every id collected,
\* counting the calls that returned True.
RECURSIVE RemoveAll(_, _, _)
RemoveAll(P, songs_to_remove, removed_count) ==
    IF songs_to_remove = <<>> THEN [p |-> P, removed_count |-> removed_count]
    ELSE LET r == pl_remove_song(P, Head(songs_to_remove)) IN
         RemoveAll(r.p, Tail(songs_to_remove),
                   IF r.ret = "True" THEN removed_count + 1 ELSE removed_count)

\* cleanup_invalid_songs(playlist_id): 0 when `not playlist`; otherwise the songs
\* whose file is gone (those outside valid) are removed, the catalog is saved when
\* one was removed, and the number removed is returned (recorded as the call's
\* argument).
CleanupInvalidSongs ==
    \E valid \in SUBSET SessionSongs :
        IF NotPlaylist(PlaylistId)
        THEN ServiceReturns("cleanup_invalid_songs", None, <<0>>, "none", None)
        ELSE LET songs_to_remove == SelectSeq(pl_get_songs_list(ThePlaylist),
                                              LAMBDA song : song \notin valid)
             IN \E r \in {RemoveAll(ThePlaylist, songs_to_remove, 0)} :
                    ServiceCall(r.p, r.removed_count > 0, "cleanup_invalid_songs", None,
                                <<r.removed_count>>, "none", None)

\* duplicate_playlist(playlist_id, new_name): None when `not playlist`; otherwise
\* the duplicate, under a name no playlist has, is appended to the catalog and the
\* catalog is saved. A duplicate is made while the catalog has none.
DuplicatePlaylist ==
    \E new_name \in {None, "Mix"} :
        IF NotPlaylist(PlaylistId)
        THEN ServiceReturns("duplicate_playlist", None, <<>>, "none", None)
        ELSE /\ \A i \in 1..Len(playlists) : playlists[i].id = PlaylistId
             /\ \E d \in {duplicate(ThePlaylist,
                                      IF new_name # None THEN new_name
                                      ELSE CopyName(NameOf(PlaylistId)),
                                      CHOOSE u \in Uuid4Ids : TRUE)} :
                    \E new \in {[d EXCEPT !.name = unique_name(d.name, d.name, 1),
                                          !.p.songs = Renamed(d.p.songs)]} :
                        LET duplicated == Append(playlists,
                                                 [id |-> new.id, name |-> new.name])
                        IN /\ copy' = new
                           /\ playlists' = duplicated
                           /\ playlists_file' = Saved(duplicated, ThePlaylist, new.p)
                           /\ last' = Call("duplicate_playlist", None, <<>>, "none", new.id)
                           /\ UNCHANGED <<listVars, plVars, sessionVars, audio, request,
                                          tracker, timeouts>>

\* delete_playlist(playlist_id): False when no playlist has the id; otherwise the
\* manager is reset when
\* `self.player_manager.current_playlist and current_playlist.id == playlist_id`,
\* the playlist is removed from the catalog and the catalog is saved.
DeletePlaylist ==
    \E playlist_id \in {PlaylistId} \cup Uuid4Ids :
        IF get_playlist_by_id(playlist_id) = None
        THEN ServiceReturns("delete_playlist", None, <<>>, "none", "False")
        ELSE /\ IF /\ PlaylistTruthy
                   /\ current_playlist \in {"pl", "replaced"}
                   /\ playlist_id = PlaylistId
                THEN /\ current_playlist' = None
                     /\ is_playing' = FALSE
                     /\ is_paused' = FALSE
                     /\ current_volume' = DefaultVolume
                     /\ repeat_mode' = "off"
                     /\ shuffle_mode' = FALSE
                     /\ current_position_seconds' = 0
                     /\ UNCHANGED volume_before_mute
                ELSE UNCHANGED sessionVars
             /\ playlists' = playlists_remove(playlist_id)
             /\ playlists_file' = Saved(playlists_remove(playlist_id), ThePlaylist, TheCopy)
             /\ copy' = IF playlist_id = PlaylistId THEN copy ELSE [id |-> None]
             /\ last' = Call("delete_playlist", None, <<>>, "none", "True")
             /\ UNCHANGED <<listVars, plVars, audio, request, tracker, timeouts>>

\* load_playlists_from_file(): True and nothing done when there is no file;
\* otherwise the catalog is replaced by from_dict() of every playlist of the file,
\* the files of the songs in loadable still being there. The manager keeps the
\* object it had.
LoadPlaylistsFromFile ==
    \E loadable \in SUBSET SessionSongs :
        IF ~playlists_file.exists
        THEN ServiceReturns("load_playlists_from_file", None, <<>>, "none", "True")
        ELSE \E loaded \in {[i \in 1..Len(playlists_file.playlists) |->
                                 from_dict(playlists_file.playlists[i], loadable)]} :
                 LET here == {i \in 1..Len(loaded) : loaded[i].id = PlaylistId}
                     there == {i \in 1..Len(loaded) : loaded[i].id # PlaylistId}
                 IN /\ playlists' = [i \in 1..Len(loaded) |->
                                        [id |-> loaded[i].id, name |-> loaded[i].name]]
                    /\ IF here = {}
                       THEN UNCHANGED <<listVars, plVars, current_playlist>>
                       ELSE /\ StorePlaylist(loaded[CHOOSE i \in here : TRUE].p)
                            /\ current_playlist' = Replaced
                    /\ copy' = IF there = {} THEN copy
                               ELSE LET q == loaded[CHOOSE i \in there : TRUE] IN
                                    [q EXCEPT !.p.songs = Renamed(q.p.songs)]
                    /\ last' = Call("load_playlists_from_file", None, <<>>, "none", "True")
                    /\ UNCHANGED <<is_playing, is_paused, current_volume, repeat_mode,
                                   shuffle_mode, current_position_seconds,
                                   volume_before_mute, playlists_file, audio, request,
                                   tracker, timeouts>>

\* save_playlists_to_file() called on its own: the catalog is written as it stands.
SavePlaylistsToFile ==
    /\ playlists_file' = Saved(playlists, ThePlaylist, TheCopy)
    /\ last' = Call("save_playlists_to_file", None, <<>>, "none", "True")
    /\ UNCHANGED <<listVars, plVars, sessionVars, copy, audio, request, playlists,
                   tracker, timeouts>>

NextCatalog ==
    \/ CreatePlaylist
    \/ UpdatePlaylist
    \/ AddSongToPlaylist
    \/ RemoveSongFromPlaylist
    \/ MoveSongInPlaylist
    \/ ShufflePlaylist
    \/ ServiceSetCurrentPlaylist
    \/ NextSongInPlaylist
    \/ PreviousSongInPlaylist
    \/ JumpToSong
    \/ CleanupInvalidSongs
    \/ DeletePlaylist
    \/ LoadPlaylistsFromFile
    \/ SavePlaylistsToFile
    \/ SetVolume

\* The catalog of the playlist service and the manager's session, under the
\* service's calls on one playlist and the manager's volume control.
SpecCatalog == Init /\ [][NextCatalog]_vars

NextDuplicates ==
    \/ CreatePlaylist
    \/ UpdatePlaylist
    \/ AddSongToPlaylist
    \/ ServiceSetCurrentPlaylist
    \/ NextSongInPlaylist
    \/ DuplicatePlaylist
    \/ DeletePlaylist
    \/ LoadPlaylistsFromFile
    \/ SavePlaylistsToFile

\* The catalog with a playlist and the duplicate duplicate_playlist makes of it.
SpecDuplicates == Init /\ [][NextDuplicates]_vars

\* ------------------------------------------------- AudioService operations
\* The fields a playback call works on: the audio service's own, and the manager's
\* playback flags and position. audio.mixer is the state of pygame.mixer.music
\* ("idle", "playing", "paused", and "quit" after pygame.mixer.quit()), audio.music
\* the file it holds; audio.position_thread is the thread self._position_thread
\* refers to, None before the first.
World ==
    [audio |-> audio, is_playing |-> is_playing, is_paused |-> is_paused,
     seconds |-> current_position_seconds]

\* The playback fields w written back to the state.
StoreWorld(w) ==
    /\ audio' = w.audio
    /\ is_playing' = w.is_playing
    /\ is_paused' = w.is_paused
    /\ current_position_seconds' = w.seconds

\* The manager's fields no playback call writes.
managerRest ==
    <<current_playlist, current_volume, repeat_mode, shuffle_mode, volume_before_mute>>

\* A tracking thread has been started and has not returned.
Alive(t) == tracker[t].pc \notin {"none", "ended"}

\* `self._position_thread and self._position_thread.is_alive()`
ThreadAlive == audio.position_thread # None /\ Alive(audio.position_thread)

\* What self._position_thread.join(timeout=1.0) of _stop_position_tracking_thread
\* is for the thread me: not reached when the thread is not alive ("skip"), a
\* RuntimeError when me is that thread ("self"), otherwise a wait of up to a second
\* during which the other threads run ("wait").
Join(me) ==
    IF ~ThreadAlive THEN "skip"
    ELSE IF audio.position_thread = me THEN "self"
    ELSE "wait"

\* A tracking thread returns: the thread object stays as long as
\* self._position_thread refers to it.
Returned(t) ==
    [pc |-> IF audio.position_thread = t THEN "ended" ELSE "none", song |-> None,
     joined |-> None]

\* join(timeout=1.0) on the Thread object j returns: that thread has ended (the
\* waiting thread's `joined` is None by then), or the second has passed and it is
\* still alive.
JoinReturns(j) ==
    /\ j = None \/ timeouts < MaxTimeouts
    /\ timeouts' = IF j = None THEN timeouts ELSE timeouts + 1

\* The tracking threads trk once the thread t has returned: the joins of t are over.
Released(trk, t) ==
    [u \in Trackers |-> IF trk[u].joined = t THEN [trk[u] EXCEPT !.joined = None]
                        ELSE trk[u]]

\* The tracking thread t returns from _position_tracker.
Ends(t) ==
    /\ tracker' = Released([tracker EXCEPT ![t] = Returned(t)], t)
    /\ request' = IF request.joined = t THEN [request EXCEPT !.joined = None] ELSE request

\* The tracking thread t goes on at pc, in a join of the thread j when j is one.
GoesOn(t, pc, song, j) ==
    /\ tracker' = [tracker EXCEPT ![t] = [pc |-> pc, song |-> song, joined |-> j]]
    /\ UNCHANGED request

\* The request handler between two calls.
IdleRequest ==
    [step |-> "idle", position |-> -1, song |-> None, joined |-> None,
     was_playing |-> FALSE]

\* The request handler waits at step in the join of self._position_thread.
Waiting(step) == [request EXCEPT !.step = step, !.joined = audio.position_thread]

\* MusicPlayerManager.set_playing_state(False) on the playback fields.
set_not_playing(w) ==
    [w EXCEPT !.is_playing = FALSE, !.is_paused = IF PlaylistTruthy THEN TRUE ELSE @]

\* _force_stop_all_audio up to the join of the tracking thread: mixer.stop(),
\* unload(), and the stop flag of _stop_position_tracking_thread. With the mixer
\* quit, stop() raises pygame.error and the method catches it at once.
force_stop_begin(w) ==
    IF w.audio.mixer = "quit" THEN w
    ELSE [w EXCEPT !.audio.mixer = "idle", !.audio.music = None,
                   !.audio.stop_position_tracking = TRUE]

\* _force_stop_all_audio after the join: is_loaded, set_playing_state(False),
\* update_position(0).
force_stop_end(w) ==
    [set_not_playing(w) EXCEPT !.audio.is_loaded = FALSE, !.seconds = 0]

\* _force_stop_all_audio when its join is no wait: skipped (j = "skip"), or the
\* RuntimeError of joining the running thread (j = "self"), which the method
\* catches, skipping the rest.
force_stop_all_audio(w, j) ==
    IF w.audio.mixer = "quit" THEN w
    ELSE IF j = "self" THEN force_stop_begin(w)
    ELSE force_stop_end(force_stop_begin(w))

\* How the checks of the file and pygame.mixer.music.load end.
LoadOutcomes == {"loaded", "invalid file", "pygame.error"}

\* load_song_finish whose failing paths leave _is_loading set.
load_song_finish_keeps_flag(w, song, outcome) ==
    IF outcome = "loaded" /\ w.audio.mixer # "quit"
    THEN [w |-> [w EXCEPT !.audio.mixer = "idle", !.audio.music = song,
                          !.audio.current_song = song, !.audio.is_loaded = TRUE,
                          !.audio.is_loading = FALSE],
          err |-> "none", ret |-> "True"]
    ELSE [w |-> w, err |-> "none", ret |-> "False"]

\* load_song after its force stop: the checks of the file, the load, and the
\* `finally` that clears _is_loading. A mixer that was quit raises pygame.error.
load_song_finish(w, song, outcome) ==
    IF outcome = "loaded" /\ w.audio.mixer # "quit"
    THEN [w |-> [w EXCEPT !.audio.mixer = "idle", !.audio.music = song,
                          !.audio.current_song = song, !.audio.is_loaded = TRUE,
                          !.audio.is_loading = FALSE],
          err |-> "none", ret |-> "True"]
    ELSE [w |-> [w EXCEPT !.audio.is_loading = FALSE], err |-> "none", ret |-> "False"]

\* play() up to the start of the new tracking thread: unpause or play,
\* set_playing_state(True), and in _start_position_tracking the stop of a thread
\* that is alive. pygame.error (the mixer was quit, or play() with no music
\* loaded) gives False; joining the running thread raises RuntimeError, which
\* play() does not catch. next is what follows: "return", "raise", "wait" for
\* the join, "start" for the new thread.
play_begin(w, j) ==
    IF ~w.audio.is_loaded \/ w.audio.current_song = None
    THEN [w |-> w, err |-> "none", ret |-> "False", next |-> "return"]
    ELSE IF w.audio.mixer = "quit" \/ (~w.is_paused /\ w.audio.music = None)
    THEN [w |-> w, err |-> "none", ret |-> "False", next |-> "return"]
    ELSE LET mixer == IF w.is_paused
                      THEN (IF w.audio.mixer = "paused" THEN "playing" ELSE w.audio.mixer)
                      ELSE "playing"
             w1 == [w EXCEPT !.audio.mixer = mixer, !.is_playing = TRUE,
                             !.is_paused = FALSE]
             w2 == [w1 EXCEPT !.audio.stop_position_tracking = TRUE]
         IN IF j = "skip"
            THEN [w |-> w1, err |-> "none", ret |-> None, next |-> "start"]
            ELSE IF j = "self"
            THEN [w |-> w2, err |-> "RuntimeError", ret |-> None, next |-> "raise"]
            ELSE [w |-> w2, err |-> "none", ret |-> None, next |-> "wait"]

\* _start_position_tracking after the stop of the old thread: the flag is
\* cleared and the new thread t started.
play_end(w, t) ==
    [w EXCEPT !.audio.stop_position_tracking = FALSE, !.audio.position_thread = t]

\* The identity of the next thread: one that is not running. A thread that starts
\* its successor as its last act hands its identity on.
NewThread(me) == CHOOSE t \in Trackers : ~Alive(t) \/ t = me

\* The threads after me has started the thread t: t is in its loop, me (a
\* tracking thread, at the end of its handler) has returned, and a thread that
\* has returned and is no longer referred to is forgotten.
Started(me, t) ==
    [u \in Trackers |->
        IF u = t THEN [pc |-> "loop", song |-> None, joined |-> None]
        ELSE IF u = me \/ tracker[u].pc = "ended"
        THEN [pc |-> "none", song |-> None, joined |-> None]
        ELSE tracker[u]]

\* The tracking thread t starts its successor and returns.
StartsNext(t) ==
    /\ tracker' = Released(Started(t, NewThread(t)), t)
    /\ request' = IF request.joined = t THEN [request EXCEPT !.joined = None] ELSE request

\* AudioService.is_playing(): get_busy() and not is_paused().
audio_is_playing(w) == w.audio.mixer = "playing" /\ ~w.is_paused

\* get_position(), as the start of the track (0) or a later position (1): 0 with
\* nothing loaded, the time since start_time while the track plays, pause_time -
\* start_time, which is either, while the manager is paused, 0 otherwise.
get_position(w) ==
    IF ~w.audio.is_loaded \/ w.audio.current_song = None THEN {0}
    ELSE IF audio_is_playing(w) THEN {1}
    ELSE IF w.is_paused THEN {0, 1}
    ELSE {0}

\* pause() up to the join: False when nothing is playing (and when get_busy()
\* raises pygame.error, the mixer quit); otherwise mixer.pause(),
\* set_playing_state(False) and the stop flag.
pause(w) ==
    IF audio_is_playing(w)
    THEN [w |-> [set_not_playing(w) EXCEPT !.audio.mixer = "paused",
                                           !.audio.stop_position_tracking = TRUE],
          err |-> "none", ret |-> "True"]
    ELSE [w |-> w, err |-> "none", ret |-> "False"]

\* cleanup() after its joins: the rest of the force stop, and pygame.mixer.quit().
cleanup_end(w) ==
    LET w1 == IF w.audio.mixer = "quit" THEN w ELSE force_stop_end(w)
    IN [w1 EXCEPT !.audio.mixer = "quit", !.audio.music = None]

\* The positions seek is called with: negative, the start, within the track, and
\* beyond every track's end.
SeekPositions == {-1, 0, 1, 5}

\* The seconds skip_forward and skip_backward are called with.
SkipSeconds == {1, 10}

\* seek clamps position_seconds to the song's duration; the position is kept as
\* the start of the track (0) or a later one (1).
seek_position(position, song) ==
    LET clamped == IF position > duration(song) THEN duration(song) ELSE position
    IN IF clamped > 0 THEN 1 ELSE 0

\* seek after its sleeps: the VLC part, pygame's load of the current song and
\* play(start=position). A call of VLC or the load that raises leaves the mixer as
\* it is; play(start=) that raises leaves the file loaded; both are caught and
\* give False.
seek_resume(w, outcome) ==
    IF outcome = "pygame.error"
    THEN [w |-> w, ret |-> "False"]
    ELSE IF outcome = "play.error"
    THEN [w |-> [w EXCEPT !.audio.music = w.audio.current_song, !.audio.mixer = "idle"],
          ret |-> "False"]
    ELSE [w |-> [w EXCEPT !.audio.music = w.audio.current_song,
                          !.audio.mixer = "playing"],
          ret |-> None]

\* seek after play(start=position). If the track was playing:
\* set_playing_state(True), and in _start_position_tracking the stop flag and the
\* join of a thread that is alive ("wait"), or straight on to the new thread
\* ("start"). If it was not: pause() of the mixer ("update").
seek_played(w, was_playing, j) ==
    IF ~was_playing
    THEN [w |-> [w EXCEPT !.audio.mixer = IF @ = "playing" THEN "paused" ELSE @],
          next |-> "update"]
    ELSE LET w1 == [w EXCEPT !.is_playing = TRUE, !.is_paused = FALSE]
         IN IF j = "skip"
            THEN [w |-> w1, next |-> "start"]
            ELSE [w |-> [w1 EXCEPT !.audio.stop_position_tracking = TRUE],
                  next |-> "wait"]

\* --------------------------------------------------- the request handler
\* A step of a call of the audio service by the request handler: the playback
\* fields w, the handler's next position, and what is recorded.
RequestStep(w, next, op, s, err, ret) ==
    /\ StoreWorld(w)
    /\ request' = next
    /\ last' = Call(op, s, <<>>, err, ret)
    /\ UNCHANGED <<listVars, plVars, managerRest, copy, playlists, playlists_file, tracker>>

\* The request handler's call starts the tracking thread and returns.
RequestStarts(w, op) ==
    /\ \E t \in Trackers : ~Alive(t)
    /\ StoreWorld(play_end(w, NewThread("request")))
    /\ tracker' = Started("request", NewThread("request"))
    /\ request' = IdleRequest
    /\ last' = Call(op, None, <<>>, "none", "True")
    /\ UNCHANGED <<listVars, plVars, managerRest, copy, playlists, playlists_file>>

\* stop(): the force stop, up to its join when a tracking thread is alive.
Stop ==
    /\ request.step = "idle"
    /\ UNCHANGED timeouts
    /\ IF audio.mixer # "quit" /\ ThreadAlive
       THEN RequestStep(force_stop_begin(World), Waiting("stop_join"),
                        "audio.stop:join", None, "none", None)
       ELSE RequestStep(force_stop_all_audio(World, "skip"), IdleRequest,
                        "audio.stop", None, "none", "True")

\* stop() after the join returned, the thread ended or not.
StopJoined ==
    /\ request.step = "stop_join"
    /\ JoinReturns(request.joined)
    /\ RequestStep(force_stop_end(World), IdleRequest, "audio.stop", None, "none", "True")

\* load_song(song), the block under _loading_lock: a load in progress makes the
\* call return False, otherwise _is_loading is set.
LoadSongEnter ==
    /\ request.step = "idle"
    /\ UNCHANGED timeouts
    /\ \E song \in SessionSongs :
           IF audio.is_loading
           THEN RequestStep(World, IdleRequest, "audio.load_song", song, "none", "False")
           ELSE RequestStep([World EXCEPT !.audio.is_loading = TRUE],
                            [request EXCEPT !.step = "load", !.song = song],
                            "audio.load_song:enter", song, "none", None)

\* load_song(song), the try block: the force stop up to its join when a tracking
\* thread is alive, otherwise all of it.
LoadSong ==
    /\ request.step = "load"
    /\ UNCHANGED timeouts
    /\ IF audio.mixer # "quit" /\ ThreadAlive
       THEN RequestStep(force_stop_begin(World), Waiting("load_join"),
                        "audio.load_song:join", request.song, "none", None)
       ELSE \E outcome \in LoadOutcomes :
                LET r == load_song_finish(force_stop_all_audio(World, "skip"),
                                          request.song, outcome)
                IN RequestStep(r.w, IdleRequest, "audio.load_song", request.song,
                               r.err, r.ret)

\* load_song(song) after the join returned.
LoadSongJoined ==
    /\ request.step = "load_join"
    /\ JoinReturns(request.joined)
    /\ \E outcome \in LoadOutcomes :
           LET r == load_song_finish(force_stop_end(World), request.song, outcome)
           IN RequestStep(r.w, IdleRequest, "audio.load_song", request.song, r.err, r.ret)

\* play(): False with nothing loaded or on pygame.error; otherwise playback
\* starts and the new tracking thread is started, after the join of one that is
\* alive.
Play ==
    /\ request.step = "idle"
    /\ UNCHANGED timeouts
    /\ LET r == play_begin(World, Join("request"))
       IN IF r.next = "return"
          THEN RequestStep(r.w, IdleRequest, "audio.play", None, r.err, r.ret)
          ELSE IF r.next = "wait"
          THEN RequestStep(r.w, Waiting("play_join"), "audio.play:join", None, "none",
                           None)
          ELSE RequestStarts(r.w, "audio.play")

\* play() after the join returned: the flag is cleared and the new thread started,
\* whether or not the old one has ended.
PlayJoined ==
    /\ request.step = "play_join"
    /\ JoinReturns(request.joined)
    /\ RequestStarts(World, "audio.play")

\* pause(), up to the join when a tracking thread is alive.
Pause ==
    /\ request.step = "idle"
    /\ UNCHANGED timeouts
    /\ LET r == pause(World)
       IN IF r.ret = "True" /\ ThreadAlive
          THEN RequestStep(r.w, Waiting("pause_join"), "audio.pause:join", None, "none",
                           None)
          ELSE RequestStep(r.w, IdleRequest, "audio.pause", None, r.err, r.ret)

\* pause() after the join returned.
PauseJoined ==
    /\ request.step = "pause_join"
    /\ JoinReturns(request.joined)
    /\ RequestStep(World, IdleRequest, "audio.pause", None, "none", "True")

\* seek(position_seconds) up to the first wait. False without a current song, for
\* a negative position and when is_playing() raises pygame.error, the mixer quit.
\* Otherwise was_playing is taken, the stop flag set and the tracking thread
\* joined if it is alive; then mixer.stop() and the sleeps around the VLC part.
SeekFrom(op, position) ==
    /\ request.step = "idle"
    /\ UNCHANGED timeouts
    /\ IF audio.current_song = None \/ position < 0 \/ audio.mixer = "quit"
       THEN RequestStep(World, IdleRequest, op, None, "none", "False")
       ELSE LET w == [World EXCEPT !.audio.stop_position_tracking = TRUE]
                r == [request EXCEPT
                          !.position = seek_position(position, audio.current_song),
                          !.was_playing = audio_is_playing(World)]
            IN IF ThreadAlive
               THEN RequestStep(w, [r EXCEPT !.step = "seek_join",
                                             !.joined = audio.position_thread],
                                "audio.seek:join", None, "none", None)
               ELSE RequestStep([w EXCEPT !.audio.mixer = "idle"],
                                [r EXCEPT !.step = "seek_sleep"],
                                "audio.seek:sleep", None, "none", None)

Seek == \E position \in SeekPositions : SeekFrom("audio.seek", position)

\* skip_forward(seconds): seek(get_position() + seconds).
SkipForward ==
    \E seconds \in SkipSeconds, position \in get_position(World) :
        SeekFrom("audio.skip_forward", position + seconds)

\* skip_backward(seconds): seek(max(0.0, get_position() - seconds)). From a later
\* position the target is the start, or a later position when the song is longer
\* than the seconds.
SkipBackward ==
    \E seconds \in SkipSeconds, position \in get_position(World), target \in {0, 1} :
        /\ target = 1 => (position > 0 /\ duration(audio.current_song) > seconds)
        /\ SeekFrom("audio.skip_backward", target)

\* seek after the join returned: mixer.stop(), and the sleeps around the VLC part.
SeekJoined ==
    /\ request.step = "seek_join"
    /\ JoinReturns(request.joined)
    /\ RequestStep([World EXCEPT !.audio.mixer = "idle"],
                   [request EXCEPT !.step = "seek_sleep", !.joined = None],
                   "audio.seek:sleep", None, "none", None)

\* seek after its sleeps: the load and play(start=position); the mixer plays from
\* the new position, or the call returns False.
SeekResume ==
    /\ request.step = "seek_sleep"
    /\ UNCHANGED timeouts
    /\ \E outcome \in {"loaded", "pygame.error", "play.error"} :
           LET r == seek_resume(World, outcome)
           IN IF r.ret = "False"
              THEN RequestStep(r.w, IdleRequest, "audio.seek", None, "none", "False")
              ELSE RequestStep(r.w, [request EXCEPT !.step = "seek_played"],
                               "audio.seek:played", None, "none", None)

\* seek after play(start=position): the was_playing branch, up to the join of
\* _start_position_tracking, the start of the new thread or update_position.
SeekPlayed ==
    /\ request.step = "seek_played"
    /\ UNCHANGED timeouts
    /\ LET r == seek_played(World, request.was_playing, Join("request"))
       IN IF r.next = "wait"
          THEN RequestStep(r.w, Waiting("seek_start_join"), "audio.seek:start_join",
                           None, "none", None)
          ELSE IF r.next = "start"
          THEN RequestStep(r.w, [request EXCEPT !.step = "seek_start"],
                           "audio.seek:start", None, "none", None)
          ELSE RequestStep(r.w, [request EXCEPT !.step = "seek_update"],
                           "audio.seek:update", None, "none", None)

\* seek after the join of _start_position_tracking returned.
SeekStartJoined ==
    /\ request.step = "seek_start_join"
    /\ JoinReturns(request.joined)
    /\ RequestStep(World, [request EXCEPT !.step = "seek_start", !.joined = None],
                   "audio.seek:start", None, "none", None)

\* seek in _start_position_tracking: the flag is cleared and the new thread
\* started; update_position is next.
SeekStart ==
    /\ request.step = "seek_start"
    /\ \E t \in Trackers : ~Alive(t)
    /\ StoreWorld(play_end(World, NewThread("request")))
    /\ tracker' = Started("request", NewThread("request"))
    /\ request' = [request EXCEPT !.step = "seek_update"]
    /\ last' = Call("audio.seek:update", None, <<>>, "none", None)
    /\ UNCHANGED <<listVars, plVars, managerRest, copy, playlists, playlists_file,
                   timeouts>>

\* seek at its end: update_position(position), and True.
SeekUpdate ==
    /\ request.step = "seek_update"
    /\ UNCHANGED timeouts
    /\ RequestStep([World EXCEPT !.seconds = request.position], IdleRequest,
                   "audio.seek", None, "none", "True")

\* cleanup(): _stop_position_tracking_thread, up to its join when a tracking thread
\* is alive; otherwise the force stop and pygame.mixer.quit() as well.
Cleanup ==
    /\ request.step = "idle"
    /\ UNCHANGED timeouts
    /\ LET w == [World EXCEPT !.audio.stop_position_tracking = TRUE]
       IN IF ThreadAlive
          THEN RequestStep(w, Waiting("cleanup_join"), "audio.cleanup:join", None,
                           "none", None)
          ELSE RequestStep(cleanup_end(force_stop_begin(w)), IdleRequest,
                           "audio.cleanup", None, "none", None)

\* cleanup() after its first join: the force stop, up to its own join when the
\* thread is still alive.
CleanupJoined ==
    /\ request.step = "cleanup_join"
    /\ JoinReturns(request.joined)
    /\ IF audio.mixer # "quit" /\ ThreadAlive
       THEN RequestStep(force_stop_begin(World), Waiting("cleanup_stop_join"),
                        "audio.cleanup:stop_join", None, "none", None)
       ELSE RequestStep(cleanup_end(force_stop_begin(World)), IdleRequest,
                        "audio.cleanup", None, "none", None)

\* cleanup() after the join of its force stop.
CleanupStopJoined ==
    /\ request.step = "cleanup_stop_join"
    /\ JoinReturns(request.joined)
    /\ RequestStep(cleanup_end(World), IdleRequest, "audio.cleanup", None, "none", None)

\* A request handler's call on the playlist or the manager; one request is handled
\* at a time.
RequestAddSong == request.step = "idle" /\ AddSong(SessionSongs, MaxSessionLen)
RequestSetCurrentPlaylist == request.step = "idle" /\ SetCurrentPlaylist
RequestToggleRepeatMode == request.step = "idle" /\ ToggleRepeatMode

\* pygame's stream reaches the end of the file: the mixer is no longer busy.
StreamEnds ==
    /\ audio.mixer = "playing"
    /\ audio' = [audio EXCEPT !.mixer = "idle"]
    /\ last' = Call("mixer.stream_ends", audio.music, <<>>, "none", None)
    /\ UNCHANGED <<listVars, plVars, sessionVars, copy, request, playlists, playlists_file, tracker,
                   timeouts>>

\* ---------------------------------------------------- the tracking thread
\* MusicPlayerManager.next_song as the tracking thread calls it, on the playlist P
\* and the playback fields w, with a playlist that is set and not empty.
manager_next_song(P, w, mode) ==
    IF mode = "one"
    THEN [p |-> P, w |-> [w EXCEPT !.seconds = 0], ret |-> TRUE]
    ELSE LET r == pl_next_song(P) IN
         IF r.ret # None
         THEN [p |-> r.p, w |-> [w EXCEPT !.seconds = 0], ret |-> TRUE]
         ELSE IF mode = "all" /\ r.p.song_count > 0
         THEN [p |-> pl_set_current_position(r.p, 0).p, w |-> [w EXCEPT !.seconds = 0],
               ret |-> TRUE]
         ELSE [p |-> r.p, w |-> [w EXCEPT !.is_playing = FALSE, !.is_paused = FALSE],
               ret |-> FALSE]

\* _handle_song_finished after its stop(), up to its call of load_song: the song
\* to load for the repeat mode, None when there is nothing to load.
finished_advance(P, w, mode, truthy) ==
    IF ~truthy THEN [p |-> P, w |-> w, song |-> None]
    ELSE IF mode = "one"
    THEN [p |-> P, w |-> w, song |-> pl_get_current_song(P)]
    ELSE LET nx == manager_next_song(P, w, mode) IN
         IF nx.ret
         THEN [p |-> nx.p, w |-> nx.w, song |-> pl_get_current_song(nx.p)]
         ELSE IF mode = "all"
         THEN LET P0 == pl_set_current_position(nx.p, 0).p
              IN [p |-> P0, w |-> nx.w, song |-> pl_get_current_song(P0)]
         ELSE [p |-> nx.p, w |-> nx.w, song |-> None]

\* The thread t is at the top of the loop of _position_tracker and finds a track
\* playing: `not self._stop_position_tracking`, then
\* `self.is_playing() and self.current_song`.
Tracking(t) ==
    /\ tracker[t].pc = "loop"
    /\ ~audio.stop_position_tracking
    /\ audio_is_playing(World)
    /\ audio.current_song # None

\* _position_tracker leaves its loop: the stop flag is set at the top of the loop,
\* or a call of the mixer raises pygame.error, the mixer quit: is_playing() at the
\* top of the loop or in get_position(), or get_busy() after update_position(0.0)
\* with nothing loaded.
TrackerExit ==
    \E t \in Trackers :
        /\ IF tracker[t].pc = "loop"
           THEN audio.stop_position_tracking \/ audio.mixer = "quit"
           ELSE tracker[t].pc = "round" /\ audio.mixer = "quit"
        /\ Ends(t)
        /\ current_position_seconds' =
               IF tracker[t].pc = "round" /\ ~audio.is_loaded THEN 0
               ELSE current_position_seconds
        /\ last' = Call("tracker.exit", None, <<>>, "none", None)
        /\ UNCHANGED <<listVars, plVars, current_playlist, is_playing, is_paused,
                       current_volume, repeat_mode, shuffle_mode, volume_before_mute,
                       copy, audio, playlists, playlists_file, timeouts>>

\* _position_tracker, the top of a round of its loop: a track is playing. The
\* other threads run before the round goes on.
TrackRound ==
    \E t \in Trackers :
        /\ Tracking(t)
        /\ GoesOn(t, "round", None, None)
        /\ last' = Call("tracker.round", None, <<>>, "none", None)
        /\ UNCHANGED <<listVars, plVars, sessionVars, copy, audio, playlists, playlists_file, timeouts>>

\* _position_tracker, the rest of a round within the track: update_position with
\* get_position(), the position is before the end and the mixer busy; the thread
\* sleeps and is at the top of its loop again.
TrackPosition ==
    \E t \in Trackers, position \in get_position(World) :
        /\ tracker[t].pc = "round"
        /\ audio.mixer = "playing"
        /\ current_position_seconds' = position
        /\ GoesOn(t, "loop", None, None)
        /\ last' = Call("tracker.update_position", None, <<position>>, "none", None)
        /\ UNCHANGED <<listVars, plVars, current_playlist, is_playing, is_paused,
                       current_volume, repeat_mode, shuffle_mode, volume_before_mute,
                       copy, audio, playlists, playlists_file, timeouts>>

\* _position_tracker, the rest of the round that ends the tracking:
\* update_position with get_position(), then the position is within half a second
\* of the end, or the mixer is not busy; _handle_song_finished is next. It takes
\* no lock.
SongFinished ==
    \E t \in Trackers, position \in get_position(World) :
        /\ tracker[t].pc = "round"
        /\ audio.mixer # "quit"
        /\ position > 0 \/ audio.mixer # "playing"
        /\ current_position_seconds' = position
        /\ GoesOn(t, "finished", None, None)
        /\ last' = Call("tracker.song_finished", None, <<position>>, "none", None)
        /\ UNCHANGED <<listVars, plVars, current_playlist, is_playing, is_paused,
                       current_volume, repeat_mode, shuffle_mode, volume_before_mute,
                       copy, audio, playlists, playlists_file, timeouts>>

\* The handler of the thread t goes on from the playback fields w after its stop():
\* the song to load is found; with nothing to load the handler returns and the
\* thread leaves its loop.
HandlerAdvance(t, w) ==
    LET a == finished_advance(ThePlaylist, w, repeat_mode, PlaylistTruthy)
    IN /\ StorePlaylist(a.p)
       /\ StoreWorld(a.w)
       /\ IF a.song = None THEN Ends(t) ELSE GoesOn(t, "advanced", a.song, None)
       /\ last' = Call("tracker.advance", a.song, <<>>, "none", None)
       /\ UNCHANGED <<managerRest, copy, playlists, playlists_file>>

\* _handle_song_finished starts: stop(), whose join is a RuntimeError for the
\* thread self._position_thread refers to and a wait for any other, then the
\* choice of the song to load.
FinishedAdvance ==
    \E t \in Trackers :
        /\ tracker[t].pc = "finished"
        /\ UNCHANGED timeouts
        /\ IF audio.mixer # "quit" /\ Join(t) = "wait"
           THEN /\ StoreWorld(force_stop_begin(World))
                /\ GoesOn(t, "stop_join", None, audio.position_thread)
                /\ last' = Call("tracker.stop:join", None, <<>>, "none", None)
                /\ UNCHANGED <<listVars, plVars, managerRest, copy, playlists, playlists_file>>
           ELSE HandlerAdvance(t, force_stop_all_audio(World, Join(t)))

\* _handle_song_finished after the join of its stop() returned.
FinishedStopJoined ==
    \E t \in Trackers :
        /\ tracker[t].pc = "stop_join"
        /\ JoinReturns(tracker[t].joined)
        /\ HandlerAdvance(t, force_stop_end(World))

\* load_song(song) on the tracking thread, the block under _loading_lock. A
\* rejected load ends the handler and with it the thread.
TrackerLoadEnter ==
    \E t \in Trackers :
        /\ tracker[t].pc = "advanced"
        /\ UNCHANGED timeouts
        /\ IF audio.is_loading
           THEN /\ Ends(t)
                /\ last' = Call("tracker.load_song", tracker[t].song, <<>>, "none",
                                "False")
                /\ UNCHANGED audio
           ELSE /\ GoesOn(t, "loading", tracker[t].song, None)
                /\ audio' = [audio EXCEPT !.is_loading = TRUE]
                /\ last' = Call("tracker.load_song:enter", tracker[t].song, <<>>, "none",
                                None)
        /\ UNCHANGED <<listVars, plVars, sessionVars, copy, playlists, playlists_file>>

\* The handler of the thread t after load_song returned r for its song: it goes on
\* to play() if the song loaded, and returns otherwise, and then the thread leaves
\* its loop.
HandlerLoaded(t, r) ==
    /\ StoreWorld(r.w)
    /\ IF r.ret = "True" THEN GoesOn(t, "loaded", tracker[t].song, None) ELSE Ends(t)
    /\ last' = Call("tracker.load_song", tracker[t].song, <<>>, r.err, r.ret)
    /\ UNCHANGED <<listVars, plVars, managerRest, copy, playlists, playlists_file>>

\* play() on the tracking thread, after its load_song returned True. A play() that
\* returns True has started the next thread; a RuntimeError is caught by the
\* handler. Then the handler returns and the thread leaves its loop, unless play()
\* waits in a join.
TrackerPlay ==
    \E t \in Trackers :
        LET song == tracker[t].song
            p == play_begin(World, Join(t))
        IN /\ tracker[t].pc = "loaded"
           /\ UNCHANGED timeouts
           /\ IF p.next = "wait"
              THEN /\ StoreWorld(p.w)
                   /\ GoesOn(t, "play_join", song, audio.position_thread)
                   /\ last' = Call("tracker.play:join", song, <<>>, "none", None)
              ELSE IF p.next = "start"
              THEN /\ StoreWorld(play_end(p.w, NewThread(t)))
                   /\ StartsNext(t)
                   /\ last' = Call("tracker.play", song, <<>>, "none", "True")
              ELSE /\ StoreWorld(p.w)
                   /\ Ends(t)
                   /\ last' = Call("tracker.play", song, <<>>, p.err, p.ret)
           /\ UNCHANGED <<listVars, plVars, managerRest, copy, playlists, playlists_file>>

\* load_song(song) on the tracking thread, the try block: the force stop, up to
\* its join when another tracking thread is alive; otherwise the load and the
\* `finally`.
TrackerLoad ==
    \E t \in Trackers :
        /\ tracker[t].pc = "loading"
        /\ UNCHANGED timeouts
        /\ IF audio.mixer # "quit" /\ Join(t) = "wait"
           THEN /\ StoreWorld(force_stop_begin(World))
                /\ GoesOn(t, "load_join", tracker[t].song, audio.position_thread)
                /\ last' = Call("tracker.load_song:join", tracker[t].song, <<>>, "none",
                                None)
                /\ UNCHANGED <<listVars, plVars, managerRest, copy, playlists, playlists_file>>
           ELSE \E outcome \in LoadOutcomes :
                    HandlerLoaded(t, load_song_finish(force_stop_all_audio(World, Join(t)),
                                                      tracker[t].song, outcome))

\* load_song(song) on the tracking thread after the join returned.
TrackerLoadJoined ==
    \E t \in Trackers :
        /\ tracker[t].pc = "load_join"
        /\ JoinReturns(tracker[t].joined)
        /\ \E outcome \in LoadOutcomes :
               HandlerLoaded(t, load_song_finish(force_stop_end(World), tracker[t].song,
                                                 outcome))

\* play() on the tracking thread after the join returned: the new thread is
\* started, the handler returns and the thread leaves its loop.
TrackerPlayJoined ==
    \E t \in Trackers :
        /\ tracker[t].pc = "play_join"
        /\ JoinReturns(tracker[t].joined)
        /\ StoreWorld(play_end(World, NewThread(t)))
        /\ StartsNext(t)
        /\ last' = Call("tracker.play", tracker[t].song, <<>>, "none", "True")
        /\ UNCHANGED <<listVars, plVars, managerRest, copy, playlists, playlists_file>>

NextAudio ==
    \/ RequestAddSong
    \/ RequestSetCurrentPlaylist
    \/ LoadSongEnter
    \/ LoadSong
    \/ LoadSongJoined
    \/ Play
    \/ PlayJoined
    \/ Pause
    \/ PauseJoined
    \/ Stop
    \/ StopJoined
    \/ Cleanup
    \/ CleanupJoined
    \/ CleanupStopJoined
    \/ Seek
    \/ SkipForward
    \/ SkipBackward
    \/ SeekJoined
    \/ SeekResume
    \/ SeekPlayed
    \/ SeekStartJoined
    \/ SeekStart
    \/ SeekUpdate
    \/ StreamEnds
    \/ TrackerExit
    \/ TrackRound
    \/ TrackPosition
    \/ SongFinished
    \/ FinishedAdvance
    \/ FinishedStopJoined
    \/ TrackerLoadEnter
    \/ TrackerLoad
    \/ TrackerLoadJoined
    \/ TrackerPlay
    \/ TrackerPlayJoined

\* Playback requests on the audio service and the tracking threads they start,
\* over the manager and a playlist that grows.
SpecAudio == Init /\ [][NextAudio]_vars

NextLoading ==
    \/ RequestAddSong
    \/ RequestSetCurrentPlaylist
    \/ RequestToggleRepeatMode
    \/ LoadSongEnter
    \/ LoadSong
    \/ LoadSongJoined
    \/ Play
    \/ PlayJoined
    \/ TrackerExit
    \/ TrackRound
    \/ TrackPosition
    \/ SongFinished
    \/ FinishedAdvance
    \/ FinishedStopJoined
    \/ TrackerLoadEnter
    \/ TrackerLoad
    \/ TrackerLoadJoined
    \/ TrackerPlay
    \/ TrackerPlayJoined

\* Loads and plays by a request handler while the tracking threads load and play
\* the tracks that follow.
SpecLoading == Init /\ [][NextLoading]_vars

\* Playlist.remove_song(song_id) in a request handler, up to the adjustment of
\* current_position: the track's first position is found and current_position
\* adjusted for the removal to come. A track that is not there gives False.
RemoveSongAdjust ==
    /\ request.step = "idle"
    /\ \E song_id \in SessionSongs :
         LET position == FirstPosition(ThePlaylist, song_id)
             sz == dll_size(songs)
             cp == current_position
         IN IF position < 0
            THEN /\ last' = Call("remove_song", song_id, <<>>, "none", "False")
                 /\ UNCHANGED <<listVars, plVars, sessionVars, otherVars>>
            ELSE /\ current_position' =
                        IF position < cp THEN cp - 1
                        ELSE IF position = cp /\ cp >= sz - 1
                        THEN (IF sz - 2 > 0 THEN sz - 2 ELSE 0)
                        ELSE cp
                 /\ current_position' >= -MaxDrift
                 /\ request' = [IdleRequest EXCEPT !.step = "adjusted",
                                                    !.position = position]
                 /\ last' = Call("remove_song:adjust", song_id, <<position>>, "none", None)
                 /\ UNCHANGED <<listVars, song_count, total_duration, sessionVars,
                                copy, audio, playlists, playlists_file, tracker, timeouts>>

\* remove_song goes on: delete_at_position(position) and update_totals(). An
\* exception is caught and gives False.
RemoveSongDelete ==
    /\ request.step = "adjusted"
    /\ LET del == dll_delete_at_position(songs, request.position)
       IN IF del.err # "none"
          THEN /\ songs' = Renamed(del.l)
               /\ request' = IdleRequest
               /\ last' = Call("remove_song", None, <<request.position>>, "none", "False")
               /\ UNCHANGED <<plVars, sessionVars, copy, audio, playlists, playlists_file, tracker, timeouts>>
          ELSE /\ StorePlaylist(update_totals([ThePlaylist EXCEPT !.songs = del.l]))
               /\ request' = [request EXCEPT !.step = "deleted"]
               /\ last' = Call("remove_song:delete", None, <<request.position>>, "none",
                               None)
               /\ UNCHANGED <<sessionVars, copy, audio, playlists, playlists_file, tracker, timeouts>>

\* remove_song ends: the list's current is put on current_position, or
\* current_position on 0, and True is returned.
RemoveSongSync ==
    /\ request.step = "deleted"
    /\ IF ~dll_is_empty(songs) /\ current_position < dll_size(songs)
       THEN LET sc == dll_set_current(songs, current_position)
            IN /\ songs' = Renamed(sc.l)
               /\ last' = Call("remove_song", None, <<request.position>>, "none",
                               IF sc.err = "none" THEN "True" ELSE "False")
               /\ UNCHANGED plVars
       ELSE /\ current_position' = 0
            /\ last' = Call("remove_song", None, <<request.position>>, "none", "True")
            /\ UNCHANGED <<listVars, song_count, total_duration>>
    /\ request' = IdleRequest
    /\ UNCHANGED <<sessionVars, copy, audio, playlists, playlists_file, tracker, timeouts>>

NextThreads ==
    \/ RequestAddSong
    \/ RequestSetCurrentPlaylist
    \/ LoadSongEnter
    \/ LoadSong
    \/ LoadSongJoined
    \/ Play
    \/ PlayJoined
    \/ RemoveSongAdjust
    \/ RemoveSongDelete
    \/ RemoveSongSync
    \/ TrackerExit
    \/ TrackRound
    \/ TrackPosition
    \/ SongFinished
    \/ FinishedAdvance
    \/ FinishedStopJoined
    \/ TrackerLoadEnter
    \/ TrackerLoad
    \/ TrackerLoadJoined
    \/ TrackerPlay
    \/ TrackerPlayJoined

\* A request handler that edits the active playlist while the tracking threads
\* started by play() follow the track.
SpecThreads == Init /\ [][NextThreads]_vars

\* ------------------------------------------------------------ observations
\* get_songs_list() / to_list(): the tracks from head to tail.
Tracks == dll_to_list(songs)

\* A sequence without its i-th element, and a sequence reversed.
Without(s, i) == SubSeq(s, 1, i - 1) \o SubSeq(s, i + 1, Len(s))
Reverse(s) == [i \in 1..Len(s) |-> s[Len(s) + 1 - i]]

\* The 1-based index of the first element of s equal to x (0 without one).
FirstIndex(s, x) ==
    IF \E i \in 1..Len(s) : s[i] = x
    THEN CHOOSE i \in 1..Len(s) : s[i] = x /\ \A j \in 1..(i - 1) : s[j] # x
    ELSE 0

\* The playlist's current_position indexes its current track.
Synced ==
    /\ ~pl_is_empty(ThePlaylist)
    /\ pl_get_song_at_position(ThePlaylist, current_position) = pl_get_current_song(ThePlaylist)

\* ------------------------------------------------------------------ claims
\* C1: in every state of a non-empty Playlist, get_song_at_position(current_position)
\* is the same track as get_current_song().
C1_PositionIndexesCurrent ==
    ~pl_is_empty(ThePlaylist) =>
        pl_get_song_at_position(ThePlaylist, current_position)
            = pl_get_current_song(ThePlaylist)

\* C2: a successful move_song(from, to) on a playlist whose current_position indexes
\* its current track keeps the current track, follows the displacement rule, and
\* leaves current_position indexing that track in the new order.
C2_MoveKeepsCurrentTrack ==
    [][(last'.op = "move_song" /\ last'.ret = "True" /\ Synced) =>
        LET f == last'.args[1]
            t == last'.args[2]
            cp == current_position
        IN /\ pl_get_current_song(ThePlaylist)' = pl_get_current_song(ThePlaylist)
           /\ pl_get_song_at_position(ThePlaylist, current_position)'
                = pl_get_current_song(ThePlaylist)
           /\ current_position' = IF f = cp THEN t
                                  ELSE IF f < cp /\ cp <= t THEN cp - 1
                                  ELSE IF t <= cp /\ cp < f THEN cp + 1
                                  ELSE cp]_vars

\* C3: after a successful move_song(from, to) the moved track is at index to and the
\* other tracks keep their relative order.
C3_MovedTrackAtTarget ==
    [][(last'.op = "move_song" /\ last'.ret = "True") =>
        LET f == last'.args[1]
            t == last'.args[2]
        IN /\ Len(Tracks') = Len(Tracks)
           /\ Tracks'[t + 1] = Tracks[f + 1]
           /\ Without(Tracks', t + 1) = Without(Tracks, f + 1)]_vars

\* C4: move_to_position(from, to) with valid positions on a non-empty list leaves
\* get_current() returning the same track.
C4_ListMoveKeepsCurrent ==
    [][(last'.op = "move_to_position" /\ last'.err = "none" /\ ~dll_is_empty(songs)) =>
        dll_get_current(songs)' = dll_get_current(songs)]_vars

\* C5: the links are well formed: head and tail are absent exactly when the list is
\* empty, head.prev and tail.next are absent, n.next.prev = n for every node but the
\* tail, the chain from head does not repeat a node, and the walk from tail visits
\* the nodes of the walk from head in reverse order.
C5_LinksWellFormed ==
    LET c == Chain(songs) IN
    /\ (songs.head = NULL) = (songs.tail = NULL)
    /\ (songs.head = NULL) = (songs.size = 0)
    /\ songs.head # NULL => songs.nodes[songs.head].prev = NULL
    /\ songs.tail # NULL => songs.nodes[songs.tail].next = NULL
    /\ \A i \in 1..Len(c) :
           songs.nodes[c[i]].next # NULL =>
               songs.nodes[songs.nodes[c[i]].next].prev = c[i]
    /\ \A i, j \in 1..Len(c) : c[i] = c[j] => i = j
    /\ c # <<>> => c[Len(c)] = songs.tail
    /\ ChainBack(songs) = Reverse(c)

\* A list of two tracks left by deleting the middle one of three.
C5_Witness ==
    /\ last.op = "delete_at_position" /\ last.args = <<1>> /\ last.err = "none"
    /\ songs.size = 2
    /\ songs.nodes[songs.head].next = songs.tail
    /\ songs.nodes[songs.tail].prev = songs.head

\* C6: size() equals the number of nodes reached from head and len(to_list()), also
\* after calls that raised.
C6_SizeCountsNodes ==
    /\ dll_size(songs) = Len(Chain(songs))
    /\ dll_size(songs) = Len(dll_to_list(songs))

\* A call that raised on a list of two tracks, after a delete.
C6_Witness ==
    /\ last.op = "delete_at_position" /\ last.err = "ValueError"
    /\ dll_size(songs) = 2 /\ Len(Chain(songs)) = 2

\* C7: current is absent exactly when the list is empty, and otherwise is a node
\* reached from head.
C7_CurrentInList ==
    /\ (songs.current = NULL) = dll_is_empty(songs)
    /\ songs.current # NULL =>
           \E i \in 1..Len(Chain(songs)) : Chain(songs)[i] = songs.current

\* The current node was deleted and the list is not empty.
C7_Witness ==
    /\ last.op = "delete_at_position" /\ last.err = "none"
    /\ last.args[1] = last.pre[1]
    /\ ~dll_is_empty(songs)
    /\ songs.current # NULL

\* The position a successful delete call removes: the argument, or the first
\* position holding the value.
DeletedPosition ==
    IF last'.op = "delete_at_position" THEN last'.args[1]
    ELSE FirstIndex(Tracks, last'.s) - 1

\* C8: a delete that removes the current node moves current to the successor, else
\* to the predecessor, else to none; delete_at_position returns the removed track
\* and the other tracks keep their order.
C8_DeleteCurrentMovesOn ==
    [][(/\ last'.op \in {"delete_at_position", "delete_by_value"}
        /\ last'.err = "none" /\ last'.ret # "False"
        /\ dll_get_current_position(songs) = DeletedPosition) =>
        LET p == DeletedPosition
            n == Len(Tracks)
        IN /\ Tracks' = Without(Tracks, p + 1)
           /\ last'.op = "delete_at_position" => last'.ret = Tracks[p + 1]
           /\ dll_get_current(songs)' = IF p < n - 1 THEN Tracks[p + 2]
                                        ELSE IF p > 0 THEN Tracks[p]
                                        ELSE None
           /\ dll_get_current_position(songs)' = IF p < n - 1 THEN p
                                                 ELSE IF p > 0 THEN p - 1
                                                 ELSE -1]_vars

\* [A,B,C] with current B: delete_at_position(1) returned B and left [A,C], current C.
C8_Witness ==
    /\ last.op = "delete_at_position" /\ last.args = <<1>> /\ last.pre[1] = 1
    /\ last.err = "none" /\ last.ret = "B"
    /\ Tracks = <<"A", "C">>
    /\ dll_get_current(songs) = "C"

\* C9: when the manager's next_song() reports failure while a playlist is active,
\* the session is Stopped afterwards.
C9_FailedNextStops ==
    (last.op = "manager_next_song" /\ last.ret = "False" /\ current_playlist # None) =>
        (~is_playing /\ ~is_paused)

\* C10: set_playing_state(True) leaves the session Playing; set_playing_state(False)
\* leaves it Paused when a non-empty playlist is active and Stopped otherwise.
C10_PlayingStateSetsFlags ==
    last.op = "set_playing_state" =>
        IF last.s = "True" THEN is_playing /\ ~is_paused
        ELSE IF current_playlist # None /\ ~pl_is_empty(ThePlaylist)
        THEN ~is_playing /\ is_paused
        ELSE ~is_playing /\ ~is_paused

\* C11: in every state of the manager, is_playing and is_paused are never both true.
C11_NeverPlayingAndPaused == ~(is_playing /\ is_paused)

\* Playing was set on an active, non-empty playlist part-way through a track.
C11_Witness ==
    /\ last.op = "set_playing_state" /\ last.s = "True"
    /\ is_playing /\ ~is_paused
    /\ current_playlist # None /\ ~pl_is_empty(ThePlaylist)
    /\ current_position_seconds = 1

\* The list cursor's index, the 0-based index of the current node (-1 without one).
CursorIndex == dll_get_current_position(songs)

\* C12: with repeat mode "all" and a non-empty active playlist, the manager's
\* next_song() and previous_song() report success and reset the playback position;
\* next_song() from the last track makes the first track current with
\* current_position 0, previous_song() from the first track makes the last track
\* current with current_position song_count - 1.
C12_RepeatAllWraps ==
    [][(/\ last'.op \in {"manager_next_song", "manager_previous_song"}
        /\ repeat_mode = "all"
        /\ current_playlist # None /\ ~pl_is_empty(ThePlaylist)) =>
        /\ last'.ret = "True"
        /\ current_position_seconds' = 0
        /\ (last'.op = "manager_next_song" /\ CursorIndex = dll_size(songs) - 1) =>
               /\ CursorIndex' = 0
               /\ current_position' = 0
               /\ pl_get_current_song(ThePlaylist)' = Tracks[1]
        /\ (last'.op = "manager_previous_song" /\ CursorIndex = 0) =>
               /\ CursorIndex' = dll_size(songs) - 1
               /\ current_position' = song_count - 1
               /\ pl_get_current_song(ThePlaylist)' = Tracks[Len(Tracks)]
        /\ Tracks' = Tracks]_vars

\* Scenario E: repeat "all", [A,B] at its last track part-way through it; next_song()
\* reported success and the first track is current.
C12_Witness ==
    /\ last.op = "manager_next_song" /\ last.ret = "True" /\ last.pre = <<1, 1>>
    /\ repeat_mode = "all" /\ current_playlist # None
    /\ Tracks = <<"A", "B">>
    /\ CursorIndex = 0 /\ current_position = 0
    /\ current_position_seconds = 0

\* C13: when the manager's previous_song() reports failure while a non-empty playlist
\* is active, with repeat off and the cursor on the first track, the session is
\* Stopped afterwards.
C13_FailedPreviousStops ==
    (/\ last.op = "manager_previous_song" /\ last.ret = "False"
     /\ current_playlist # None /\ ~pl_is_empty(ThePlaylist)
     /\ repeat_mode = "off" /\ last.pre[1] = 0) =>
        (~is_playing /\ ~is_paused)

\* C14: with repeat mode "one" and a non-empty active playlist, the manager's
\* next_song() and previous_song() report success, leave the track order, the
\* current track and current_position as they were, reset the playback position to
\* 0, and leave is_playing and is_paused as they were.
C14_RepeatOneStays ==
    [][(/\ last'.op \in {"manager_next_song", "manager_previous_song"}
        /\ repeat_mode = "one"
        /\ current_playlist # None /\ ~pl_is_empty(ThePlaylist)) =>
        /\ last'.ret = "True"
        /\ Tracks' = Tracks
        /\ CursorIndex' = CursorIndex
        /\ pl_get_current_song(ThePlaylist)' = pl_get_current_song(ThePlaylist)
        /\ current_position' = current_position
        /\ current_position_seconds' = 0
        /\ is_playing' = is_playing
        /\ is_paused' = is_paused]_vars

\* Repeat "one" while playing the first of two tracks: next_song() reported success
\* and the first track is still current.
C14_Witness ==
    /\ last.op = "manager_next_song" /\ last.ret = "True" /\ last.pre = <<0, 0>>
    /\ repeat_mode = "one" /\ current_playlist # None
    /\ Tracks = <<"A", "B">>
    /\ CursorIndex = 0 /\ current_position = 0
    /\ is_playing /\ ~is_paused
    /\ current_position_seconds = 0

\* The position a successful remove call removes: the argument, or the first
\* position holding the id.
RemovedPosition ==
    IF last'.op = "remove_song_at_position" THEN last'.args[1]
    ELSE FirstIndex(Tracks, last'.s) - 1

\* C15: on a playlist of n tracks whose current_position c is the index of the
\* list cursor, a removal at index r (by id or by position) sets current_position to
\* c - 1 when r < c, to max(0, n - 2) when r = c = n - 1, and leaves it otherwise;
\* afterwards the cursor is on the track at current_position, and a removal of
\* another track than the current one keeps the current track.
C15_RemoveAdjustsPosition ==
    [][(/\ last'.op \in {"remove_song", "remove_song_at_position"}
        /\ last'.err = "none" /\ RemovedPosition >= 0
        /\ RemovedPosition < dll_size(songs)
        /\ CursorIndex = current_position) =>
        LET r == RemovedPosition
            c == current_position
            n == dll_size(songs)
        IN /\ current_position' = IF r < c THEN c - 1
                                  ELSE IF r = c /\ c = n - 1
                                  THEN (IF n - 2 > 0 THEN n - 2 ELSE 0)
                                  ELSE c
           /\ Tracks' = Without(Tracks, r + 1)
           /\ n > 1 => /\ CursorIndex' = current_position'
                       /\ pl_get_current_song(ThePlaylist)'
                            = pl_get_song_at_position(ThePlaylist, current_position)'
           /\ n = 1 => CursorIndex' = -1
           /\ r # c => /\ pl_get_current_song(ThePlaylist)' = pl_get_current_song(ThePlaylist)
                       /\ CursorIndex' = IF r < c THEN c - 1 ELSE c]_vars

\* [A,B,C] on its last track: remove_song_at_position(2) left [A,B] on B, position 1.
C15_Witness ==
    /\ last.op = "remove_song_at_position" /\ last.args = <<2>> /\ last.pre = <<2, 2>>
    /\ last.ret = "True"
    /\ Tracks = <<"A", "B">>
    /\ current_position = 1 /\ CursorIndex = 1

\* C16: remove_song(song_id) returns True exactly when a track with the id was in
\* the playlist before the call, and then exactly its first occurrence has been
\* removed; it returns False exactly when no such track was there, and then the
\* sequence, the cursor, current_position and the totals are unchanged.
C16_RemoveReportsPresence ==
    [][(last'.op = "remove_song") =>
        LET i == FirstIndex(Tracks, last'.s) IN
        /\ last'.err = "none"
        /\ (last'.ret = "True") = (i > 0)
        /\ (last'.ret = "False") = (i = 0)
        /\ i > 0 => Tracks' = Without(Tracks, i)
        /\ i = 0 => UNCHANGED <<songs, current_position, song_count, total_duration>>]_vars

\* The number of positions of the playlist that hold track x.
Occurrences(x) == Cardinality({i \in 1..Len(Tracks) : Tracks[i] = x})

\* C17: after every Playlist operation song_count equals songs.size() and
\* total_duration equals the sum of the durations of the tracks of get_songs_list().
C17_TotalsMatchList ==
    /\ song_count = dll_size(songs)
    /\ song_count = Len(pl_get_songs_list(ThePlaylist))
    /\ total_duration = duration("A") * Occurrences("A")
                        + duration("B") * Occurrences("B")
                        + duration("C") * Occurrences("C")

\* A removal by id left [B,C], counted 2 with duration 2 + 3.
C17_Witness ==
    /\ last.op = "remove_song" /\ last.ret = "True"
    /\ Tracks = <<"B", "C">>
    /\ song_count = 2 /\ total_duration = 5

\* C18: after shuffle() on the list or shuffle_songs() on the playlist, whatever
\* order is chosen, the new sequence holds the same tracks with the same
\* multiplicities, the track that was current is still current, and after
\* shuffle_songs() current_position is the index of that track in the new order.
C18_ShuffleKeepsCurrent ==
    [][(last'.op \in {"shuffle", "shuffle_songs"}) =>
        /\ Len(Tracks') = Len(Tracks)
        /\ dll_size(songs)' = dll_size(songs)
        /\ \A x \in Songs : Occurrences(x)' = Occurrences(x)
        /\ dll_get_current(songs)' = dll_get_current(songs)
        /\ (last'.op = "shuffle_songs" /\ ~pl_is_empty(ThePlaylist)) =>
               /\ current_position' = CursorIndex'
               /\ pl_get_song_at_position(ThePlaylist, current_position)'
                    = pl_get_current_song(ThePlaylist)]_vars

\* C19: toggle_shuffle_mode() flips shuffle_mode and returns the new flag; when the
\* flag becomes true with a non-empty playlist active, the playlist holds the same
\* tracks in some order and its current track is the same; when the flag becomes
\* false, the order, the cursor and current_position are unchanged; is_playing,
\* is_paused, the volume, repeat_mode and the playback position are unchanged.
C19_ToggleShuffleFrame ==
    [][(last'.op = "toggle_shuffle_mode") =>
        /\ shuffle_mode' = ~shuffle_mode
        /\ last'.ret = (IF shuffle_mode' THEN "True" ELSE "False")
        /\ (shuffle_mode' /\ current_playlist # None /\ ~pl_is_empty(ThePlaylist)) =>
               /\ Len(Tracks') = Len(Tracks)
               /\ \A x \in Songs : Occurrences(x)' = Occurrences(x)
               /\ pl_get_current_song(ThePlaylist)' = pl_get_current_song(ThePlaylist)
        /\ ~shuffle_mode' =>
               /\ Tracks' = Tracks
               /\ CursorIndex' = CursorIndex
               /\ current_position' = current_position
        /\ UNCHANGED <<is_playing, is_paused, current_volume, repeat_mode,
                       current_position_seconds, current_playlist>>]_vars

\* Shuffle turned on while playing [A,B] at volume 40 with repeat "all": the order
\* is now [B,A] and the current track A went from index 0 to index 1.
C19_Witness ==
    /\ last.op = "toggle_shuffle_mode" /\ last.ret = "True" /\ last.pre[1] = 0
    /\ shuffle_mode
    /\ current_playlist # None
    /\ Tracks = <<"B", "A">> /\ CursorIndex = 1
    /\ pl_get_current_song(ThePlaylist) = "A"
    /\ is_playing /\ current_volume = 40 /\ repeat_mode = "all"
    /\ current_position_seconds = 1

\* C20: when every song of a reachable playlist p loads again, from_dict(p.to_dict())
\* has the id, the name, the track sequence, song_count, total_duration and
\* current_position of p, and its current track is the current track of p.
C20_RoundTrip ==
    [][(last'.op = "from_dict" /\ last'.args = <<0>>) =>
        /\ last'.s = PlaylistId
        /\ last'.ret = PlaylistName
        /\ Tracks' = Tracks
        /\ song_count' = song_count
        /\ total_duration' = total_duration
        /\ current_position' = current_position
        /\ pl_get_current_song(ThePlaylist)' = pl_get_current_song(ThePlaylist)]_vars

\* C21: duplicate() returns a playlist with another id, the same track sequence and
\* equal song_count and total_duration, whose cursor and current_position are on the
\* first track whatever the original's position; the original is unchanged by
\* duplicate(), and a later call on one of the two playlists leaves the sequence,
\* cursor and current_position of the other as they were.
C21_DuplicateIsFreshCopy ==
    [][/\ (last'.op = "duplicate") =>
            /\ copy'.id # PlaylistId
            /\ copy'.id = last'.ret
            /\ pl_get_songs_list(copy'.p) = Tracks
            /\ copy'.p.song_count = song_count
            /\ copy'.p.total_duration = total_duration
            /\ copy'.p.current_position = 0
            /\ Tracks # <<>> =>
                   /\ dll_get_current_position(copy'.p.songs) = 0
                   /\ pl_get_current_song(copy'.p) = Tracks[1]
            /\ UNCHANGED <<songs, current_position, song_count, total_duration>>
       /\ (last'.op \in {"copy.add_song", "copy.remove_song_at_position",
                         "copy.next_song"}) =>
            UNCHANGED <<songs, current_position, song_count, total_duration>>
       /\ (last'.op \in {"add_song", "remove_song_at_position", "next_song"}) =>
            copy' = copy]_vars

\* [A,B] on its second track was duplicated: the copy is [A,B] on its first track.
C21_Witness ==
    /\ last.op = "duplicate" /\ last.pre = <<1, 1>>
    /\ Tracks = <<"A", "B">> /\ current_position = 1
    /\ copy.id # None
    /\ pl_get_songs_list(copy.p) = <<"A", "B">>
    /\ copy.p.current_position = 0
    /\ pl_get_current_song(copy.p) = "A"


\* The fields a freshly constructed manager shows.
FreshSession ==
    /\ current_playlist = None
    /\ ~is_playing
    /\ ~is_paused
    /\ current_volume = DefaultVolume
    /\ repeat_mode = "off"
    /\ ~shuffle_mode
    /\ current_position_seconds = 0

\* C22: after reset_state() the session shows the defaults of a fresh one, and
\* an unmute() issued right after reset_state() leaves the volume at 70.
C22_ResetIsFresh ==
    [][/\ (last'.op = "reset_state") => FreshSession'
       /\ (last.op = "reset_state" /\ last'.op = "unmute") =>
              current_volume' = DefaultVolume]_vars

\* C23, as stated: mute() sets the volume to 0, and an unmute() restores the
\* volume v of every state in which mute() was called with no set_volume between
\* that call and the unmute(); neither changes another field of the session.
C23_MuteUnmuteRestores ==
    [][/\ (last'.op = "mute") => current_volume' = 0
       /\ (last'.op = "unmute") => \A v \in last.muted : current_volume' = v
       /\ (last'.op \in {"mute", "unmute"}) =>
              UNCHANGED <<current_playlist, is_playing, is_paused, repeat_mode,
                          shuffle_mode, current_position_seconds, listVars, plVars>>]_vars

\* C23, amended: mute() sets the volume to 0 and remembers the volume it replaced,
\* and no other call writes what is remembered; an unmute() restores the volume
\* the most recent mute() replaced, whatever was called in between: that is v
\* when every mute() since the last set_volume was called at the volume v, and 0
\* after a mute() of the muted session. Neither changes another field of the
\* session.
C23_UnmuteRestoresLastMute ==
    [][/\ (last'.op = "mute") =>
              /\ current_volume' = 0
              /\ volume_before_mute' = current_volume
       /\ (last'.op # "mute") => UNCHANGED volume_before_mute
       /\ (last'.op = "unmute" /\ volume_before_mute # -1) =>
              current_volume' = volume_before_mute
       /\ (last'.op = "unmute" /\ Cardinality(last.muted) = 1) =>
              current_volume' \in last.muted
       /\ (last.op = "mute" /\ last'.op = "mute") =>
              volume_before_mute' = 0
       /\ (last'.op \in {"mute", "unmute"}) =>
              UNCHANGED <<current_playlist, is_playing, is_paused, repeat_mode,
                          shuffle_mode, current_position_seconds, listVars, plVars>>]_vars

\* A volume of 40 was muted once and unmuted, and is 40 again, in a paused session
\* with repeat and shuffle on.
C23_Witness ==
    /\ last.op = "unmute"
    /\ last.muted = {40}
    /\ volume_before_mute = 40
    /\ current_volume = 40
    /\ current_playlist = "pl"
    /\ repeat_mode = "one"
    /\ shuffle_mode

\* C25: after AudioService.stop() returns, the session is Stopped (neither playing
\* nor paused) and the playback position is 0.
C25_StopLeavesStopped ==
    (last.op = "audio.stop") =>
        /\ ~is_playing
        /\ ~is_paused
        /\ current_position_seconds = 0

\* C24: the end-of-track handling of the tracking thread never runs on the active
\* playlist between the steps of a request handler's removal from that playlist.
C24_MutationsSerialized ==
    [][(last'.op = "tracker.advance" /\ PlaylistTruthy) =>
          request.step \notin {"adjusted", "deleted"}]_vars

\* The sequence s with x put at index i (from 0).
InsertedAt(s, i, x) == SubSeq(s, 1, i) \o <<x>> \o SubSeq(s, i + 1, Len(s))

\* C26: move_to_position(from, to) with valid from # to gives the sequence with
\* the track at from removed and put back at index to - 1 of the shortened
\* sequence when to > from, at index to when to < from; the size and the number
\* of occurrences of every track stay; from = to changes nothing.
C26_MoveIsRemoveThenInsert ==
    [][(/\ last'.op = "move_to_position"
        /\ last'.args[1] \in 0..(Len(Tracks) - 1)
        /\ last'.args[2] \in 0..(Len(Tracks) - 1)) =>
          LET from == last'.args[1]
              to == last'.args[2]
              before == Tracks
              after == Tracks'
              shortened == Without(before, from + 1)
          IN /\ last'.err = "none"
             /\ from # to =>
                    after = InsertedAt(shortened, IF to > from THEN to - 1 ELSE to,
                                       before[from + 1])
             /\ from = to => songs' = songs
             /\ dll_size(songs') = dll_size(songs)
             /\ \A x \in Songs :
                    Cardinality({i \in 1..Len(after) : after[i] = x})
                        = Cardinality({i \in 1..Len(before) : before[i] = x})]_vars

\* [A,B,C] after move_to_position(0, 2): A was put at index 1 of [B,C].
C26_Witness ==
    /\ last.op = "move_to_position"
    /\ last.args = <<0, 2>>
    /\ last.err = "none"
    /\ Tracks = <<"B", "A", "C">>

\* C27: insert_at_position(x, p) with 0 <= p <= size puts x at index p and keeps
\* the other tracks in their order, so insertions at 0, 1, ... on an empty list
\* give the tracks in the order inserted; after it get_at_position(i) gives the
\* track at index i of to_list() for every i, as does every get_at_position
\* call made.
C27_InsertAtIndex ==
    [][/\ (/\ last'.op = "insert_at_position"
           /\ last'.args[1] \in 0..Len(Tracks)) =>
              LET after == Tracks'
              IN /\ last'.err = "none"
                 /\ after = InsertedAt(Tracks, last'.args[1], last'.s)
                 /\ dll_size(songs') = dll_size(songs) + 1
                 /\ \A i \in 0..(Len(after) - 1) :
                        dll_get_at_position(songs', i) = Res(songs', "none", after[i + 1])
       /\ (last'.op = "get_at_position" /\ last'.err = "none") =>
              last'.ret = Tracks[last'.args[1] + 1]]_vars

\* C was inserted at position 2 = size after A and B: the list is [A,B,C], and
\* get_at_position(2) reaches C from the tail.
C27_Witness ==
    /\ last.op = "insert_at_position"
    /\ last.s = "C"
    /\ last.args = <<2>>
    /\ Tracks = <<"A", "B", "C">>
    /\ dll_get_at_position(songs, 2).ret = "C"

\* The call recorded is one with a position argument that is out of range for a
\* list of n tracks, or one on an empty list.
OutOfRangeCall(c, n) ==
    \/ c.op = "insert_at_position" /\ (c.args[1] < 0 \/ c.args[1] > n)
    \/ /\ c.op \in {"delete_at_position", "get_at_position", "set_current"}
       /\ (n = 0 \/ c.args[1] < 0 \/ c.args[1] >= n)
    \/ /\ c.op = "move_to_position"
       /\ (n = 0 \/ c.args[1] < 0 \/ c.args[1] >= n \/ c.args[2] < 0 \/ c.args[2] >= n)

\* C28: insert_at_position outside [0, size], and delete_at_position,
\* get_at_position, set_current and move_to_position outside [0, size-1] or on an
\* empty list, raise and leave the sequence, the size and the cursor as they were.
C28_OutOfRangeRaises ==
    [][OutOfRangeCall(last', dll_size(songs)) =>
          /\ last'.err \in {"ValueError", "IndexError"}
          /\ songs' = songs]_vars

\* set_current(2) on [A,B] with the cursor on B raised ValueError.
C28_Witness ==
    /\ last.op = "set_current"
    /\ last.args = <<2>>
    /\ last.err = "ValueError"
    /\ Tracks = <<"A", "B">>
    /\ CursorIndex = 1

\* C29: add_song with a position outside [0, size] returns False without raising
\* and changes nothing; with position None it appends; the first track added
\* becomes current with current_position 0.
C29_AddSongPositions ==
    [][(last'.op = "add_song") =>
          LET n == Len(Tracks) IN
          /\ last'.err = "none"
          /\ (last'.args # <<>> /\ (last'.args[1] < 0 \/ last'.args[1] > n)) =>
                 /\ last'.ret = "False"
                 /\ UNCHANGED <<songs, current_position, song_count, total_duration>>
          /\ last'.args = <<>> =>
                 /\ last'.ret = "True"
                 /\ Tracks' = Append(Tracks, last'.s)
          /\ (n = 0 /\ last'.ret = "True") =>
                 /\ Tracks' = <<last'.s>>
                 /\ dll_get_current(songs') = last'.s
                 /\ dll_get_current_position(songs') = 0
                 /\ current_position' = 0]_vars

\* add_song(C, 3) on [A,B] returned False.
C29_Witness ==
    /\ last.op = "add_song"
    /\ last.s = "C"
    /\ last.args = <<3>>
    /\ last.ret = "False"
    /\ Tracks = <<"A", "B">>
    /\ song_count = 2

\* C30: next() with the cursor on the tail and previous() with the cursor on the
\* head return None and leave the cursor; has_next() (has_previous()) is true
\* exactly when the next() (previous()) that follows moves the cursor, and then by
\* one track.
C30_NavigationDoesNotWrap ==
    [][/\ (last'.op = "next") =>
              /\ (CursorIndex = Len(Tracks) - 1) => (last'.ret = None /\ songs' = songs)
              /\ dll_has_next(songs) <=> (CursorIndex' # CursorIndex)
              /\ dll_has_next(songs) =>
                     /\ CursorIndex' = CursorIndex + 1
                     /\ last'.ret = Tracks[CursorIndex' + 1]
              /\ Tracks' = Tracks
       /\ (last'.op = "previous") =>
              /\ (CursorIndex <= 0) => (last'.ret = None /\ songs' = songs)
              /\ dll_has_previous(songs) <=> (CursorIndex' # CursorIndex)
              /\ dll_has_previous(songs) =>
                     /\ CursorIndex' = CursorIndex - 1
                     /\ last'.ret = Tracks[CursorIndex' + 1]
              /\ Tracks' = Tracks]_vars

\* next() on [A,B,C] with the cursor on C returned None; the cursor is on C.
C30_Witness ==
    /\ last.op = "next"
    /\ last.ret = None
    /\ last.pre[1] = 2
    /\ Tracks = <<"A", "B", "C">>
    /\ CursorIndex = 2
    /\ ~dll_has_next(songs)

\* C31: an insertion into a non-empty list, and a deletion of a node other than
\* the current one, leave get_current() on the same track: the cursor's index
\* moves by one when the place of the change is before it, and not otherwise.
C31_CursorStable ==
    [][/\ (/\ last'.op \in {"insert_at_beginning", "insert_at_end", "insert_at_position"}
           /\ last'.err = "none"
           /\ Len(Tracks) > 0) =>
              LET at == IF last'.op = "insert_at_beginning" THEN 0
                        ELSE IF last'.op = "insert_at_end" THEN Len(Tracks)
                        ELSE last'.args[1]
              IN /\ dll_get_current(songs') = dll_get_current(songs)
                 /\ CursorIndex' = IF at <= CursorIndex THEN CursorIndex + 1
                                   ELSE CursorIndex
       /\ (/\ last'.op \in {"delete_at_position", "delete_by_value"}
           /\ last'.err = "none" /\ last'.ret # "False"
           /\ CursorIndex # DeletedPosition) =>
              /\ dll_get_current(songs') = dll_get_current(songs)
              /\ CursorIndex' = IF DeletedPosition < CursorIndex THEN CursorIndex - 1
                                ELSE CursorIndex]_vars

\* B was inserted at the beginning of [A] with the cursor on A: the list is
\* [B,A] and the cursor is still on A, now at index 1.
C31_Witness ==
    /\ last.op = "insert_at_beginning"
    /\ last.s = "B"
    /\ last.pre[1] = 0
    /\ Tracks = <<"B", "A">>
    /\ CursorIndex = 1
    /\ dll_get_current(songs) = "A"

\* C32: set_current_playlist with a Playlist makes it the active playlist, puts
\* the position at 0 and the session in Stopped, and leaves volume, repeat mode
\* and shuffle mode (and the playlist itself) alone; with anything else it raises
\* and leaves the session as it was.
C32_SetCurrentPlaylist ==
    [][(last'.op = "set_current_playlist") =>
          IF last'.err = "none"
          THEN /\ last'.s = "pl"
               /\ current_playlist' = "pl"
               /\ current_position_seconds' = 0
               /\ ~is_playing'
               /\ ~is_paused'
               /\ UNCHANGED <<current_volume, repeat_mode, shuffle_mode,
                              volume_before_mute, listVars, plVars>>
          ELSE /\ last'.err = "ValueError"
               /\ last'.s = None
               /\ UNCHANGED <<sessionVars, listVars, plVars>>]_vars

\* A playlist of two tracks was made active in a session with volume 40, repeat
\* all and shuffle on: the session is Stopped at position 0 with those settings.
C32_Witness ==
    /\ last.op = "set_current_playlist"
    /\ last.err = "none"
    /\ current_playlist = "pl"
    /\ Len(Tracks) = 2
    /\ current_volume = 40
    /\ repeat_mode = "all"
    /\ shuffle_mode
    /\ ~is_playing /\ ~is_paused
    /\ current_position_seconds = 0

\* C33: set_current_position(p) with 0 <= p < size returns True, sets
\* current_position to p and puts the cursor on the track at index p, with the
\* order and the totals as before; with p out of range or on an empty playlist it
\* returns False and changes nothing.
C33_JumpTo ==
    [][(last'.op = "set_current_position") =>
          LET p == last'.args[1] IN
          /\ last'.err = "none"
          /\ IF 0 <= p /\ p < Len(Tracks)
             THEN /\ last'.ret = "True"
                  /\ current_position' = p
                  /\ CursorIndex' = p
                  /\ dll_get_current(songs') = Tracks[p + 1]
                  /\ Tracks' = Tracks
                  /\ UNCHANGED <<song_count, total_duration>>
             ELSE /\ last'.ret = "False"
                  /\ UNCHANGED <<songs, current_position, song_count, total_duration>>]_vars

\* set_current_position(2) on [A,B,C] with the cursor on A: C is current.
C33_Witness ==
    /\ last.op = "set_current_position"
    /\ last.args = <<2>>
    /\ last.pre = <<0, 0>>
    /\ last.ret = "True"
    /\ Tracks = <<"A", "B", "C">>
    /\ current_position = 2
    /\ dll_get_current(songs) = "C"

\* C34: the volume is within 0..100 after every call; set_volume with a volume
\* outside 0..100 raises and leaves every field of the session as it was.
C34_VolumeInRange ==
    [][/\ 0 <= current_volume' /\ current_volume' <= 100
       /\ (last'.op = "set_volume" /\ (last'.args[1] < 0 \/ last'.args[1] > 100)) =>
              /\ last'.err = "ValueError"
              /\ UNCHANGED <<sessionVars, listVars, plVars>>
       /\ (last'.op = "set_volume" /\ 0 <= last'.args[1] /\ last'.args[1] <= 100) =>
              /\ last'.err = "none"
              /\ current_volume' = last'.args[1]]_vars

\* set_volume(101) was refused in a muted session that remembers volume 40.
C34_Witness ==
    /\ last.op = "set_volume"
    /\ last.args = <<101>>
    /\ last.err = "ValueError"
    /\ current_volume = 0
    /\ volume_before_mute = 40

\* The mode after m in the cycle off, one, all.
CycleAfter(m) == IF m = "off" THEN "one" ELSE IF m = "one" THEN "all" ELSE "off"

\* C35: toggle_repeat_mode() goes from off to one, from one to all and from all to
\* off and returns the new mode, so that three toggles lead back; repeat_mode is
\* one of off, one, all after every call; set_repeat_mode with another value
\* raises and leaves repeat_mode (and the session) unchanged.
C35_RepeatCycle ==
    [][/\ repeat_mode' \in {"off", "one", "all"}
       /\ (last'.op = "toggle_repeat_mode") =>
              /\ repeat_mode' = CycleAfter(repeat_mode)
              /\ CycleAfter(CycleAfter(repeat_mode')) = repeat_mode
              /\ last'.ret = repeat_mode'
       /\ (last'.op = "set_repeat_mode") =>
              IF last'.s \in {"off", "one", "all"}
              THEN last'.err = "none" /\ repeat_mode' = last'.s
              ELSE last'.err = "ValueError" /\ UNCHANGED sessionVars]_vars

\* A toggle from all gave off, in a playing session.
C35_Witness ==
    /\ last.op = "toggle_repeat_mode"
    /\ last.ret = "off"
    /\ repeat_mode = "off"
    /\ is_playing
    /\ current_playlist = "pl"

\* C36: current_position is an index of the playlist, or 0 on an empty one:
\* 0 <= current_position <= max(0, song_count - 1).
C36_PositionInRange ==
    /\ 0 <= current_position
    /\ current_position <= (IF song_count - 1 > 0 THEN song_count - 1 ELSE 0)

\* C37: a playlist mutation that returns False leaves the track sequence, the
\* list cursor, current_position, song_count and total_duration as they were.
C37_FailedMutationAtomic ==
    [][(/\ last'.op \in {"add_song", "remove_song", "remove_song_at_position",
                        "move_song", "set_current_position"}
        /\ last'.ret = "False")
       => UNCHANGED <<songs, current_position, song_count, total_duration>>]_vars

\* C38: when the end-of-track handler of a tracking thread has found a track to
\* go on with and its play() ends, then, if the session says a track is playing,
\* a position tracker is alive for it.
C38_TrackerFollows ==
    [][(last'.op = "tracker.play" /\ is_playing') => ThreadAlive']_vars

\* C39: the session's current_playlist is absent or a playlist of the catalog:
\* the catalog has a playlist with its id.
C39_NoDeletedPlaylist ==
    \/ current_playlist = None
    \/ /\ current_playlist \in {"pl", "replaced", "replaced-empty"}
       /\ get_playlist_by_id(PlaylistId) # None

\* The threads inside the try block of load_song: the request handler and the
\* tracking threads.
Loaders ==
    {x \in Trackers \cup {"request"} :
        IF x = "request" THEN request.step \in {"load", "load_join"}
        ELSE tracker[x].pc \in {"loading", "load_join"}}

\* C40: at most one thread is in the loading section of load_song, and
\* _is_loading is set exactly while one is; a load_song that finds a load in
\* progress returns False and leaves the audio service and the session as they
\* were; a load_song is rejected only while another thread is loading.
C40_OneLoader ==
    [][/\ Cardinality(Loaders') <= 1
       /\ audio'.is_loading <=> Loaders' # {}
       /\ (last'.op = "audio.load_song" /\ request.step = "idle") =>
            /\ Loaders # {}
            /\ last'.ret = "False"
            /\ UNCHANGED <<audio, sessionVars, tracker>>
       /\ \A t \in Trackers :
            (tracker[t].pc = "advanced" /\ tracker'[t].pc \notin {"advanced", "loading"}) =>
                /\ Loaders # {}
                /\ last'.ret = "False"
                /\ UNCHANGED <<audio, sessionVars>>
       /\ (last'.op \in {"audio.load_song:enter", "tracker.load_song:enter"}) =>
            ~audio.is_loading]_vars

\* A request's load_song was rejected while a tracking thread was loading B, and
\* the flag is still held by the tracking thread.
C40_Witness ==
    /\ last.op = "audio.load_song" /\ last.ret = "False"
    /\ \E t \in Trackers : tracker[t].pc \in {"loading", "load_join"} /\ tracker[t].song = "B"
    /\ audio.is_loading
    /\ request.step = "idle"
====
